---- MODULE Spec2Model ----
(***************************************************************************)
(* Model of the OTP-gated authentication routes of the placement portal    *)
(* backend (backend/src/routes/auth.js).                                   *)
(*                                                                         *)
(* The store (the Prisma tables), the clock and the signed tokens are the   *)
(* state.  A route is a little process per request slot: an async handler  *)
(* runs from one `await` (a store call) to the next without interruption,  *)
(* and another request or the passage of time may come between two of its  *)
(* store calls.  pc[p] is the await the handler in slot p stands at and    *)
(* req[p] holds its locals.  The code between two store calls runs in the  *)
(* step of the later one; the code after the last store call, the          *)
(* response included, runs in the step of that call.  With Procs two       *)
(* requests are in flight at once, with One a single request at a time.    *)
(*                                                                         *)
(* Time is counted in units of five minutes (the smallest lifetime in the  *)
(* routes); a Date is the number of units since the start.                 *)
(***************************************************************************)
EXTENDS Integers, Sequences, FiniteSets, TLC

VARIABLES
  now,            \* the server clock (Date.now()), in 5-minute units
  users,          \* table User, keyed by its unique email
  otps,           \* table OTP, in insertion (createdAt) order
  refreshTokens,  \* table RefreshToken
  profiles,       \* tables Student / Recruiter / Admin
  jwts,           \* the unexpired ephemeral tokens signed with JWT_SECRET
  mail,           \* the e-mail handed to the e-mail service by the last step
  pc,             \* per request slot: the await the handler stands at ("idle": none)
  req,            \* per request slot: the handler's locals
  sent,           \* the response written by the last step, with the request it answers
  consumed,       \* history: per OTP row, the successful verifies that used it
  issued,         \* the number of refresh tokens generated so far
  redeemed        \* history: the unexpired reset tokens an update-password has
                  \* succeeded with, once and more than once

vars == <<now, users, otps, refreshTokens, profiles, jwts, mail, pc, req, sent, consumed, issued,
          redeemed>>

\* ------------------------------------------------------------------ bounds
MaxTime == 3
MaxRows == 2
MaxSessions == 3

\* ------------------------------------------------- constants of the routes
VERIFY_OTP_TTL == 1
RESET_OTP_TTL == 2
VERIFY_TOKEN_TTL == 2
RESET_TOKEN_TTL == 3
REGISTER_WINDOW == 2
UPDATE_WINDOW == 3
REFRESH_TTL == 2016
MIN_PASSWORD == 6
OTP_BASE == 100000
OTP_SPAN == 900000

\* ------------------------------------------------------------- input sets
\* the request slots: two requests in flight at once
Procs == {1, 2}
\* a single slot: one request at a time
One == {1}
RawEmails == {"A@x.com", "b@x.com"}
Emails == {"a@x.com", "b@x.com"}
Passwords == {"secret2", "short"}
Roles == {"STUDENT", "RECRUITER", "ADMIN"}
\* Math.floor(Math.random() * 900000) for the sampled values of Math.random()
RandomDraws == {0, OTP_SPAN - 1}

NoUser == [id |-> "none"]
NoToken == [type |-> "absent"]
NoRow == 0
NoDate == -1
NoResp == [status |-> 0, msg |-> "", otpStatus |-> "", otpExpiresAt |-> 0, token |-> NoToken]

\* body('email').normalizeEmail() and email.toLowerCase().trim()
NormalizeEmail(raw) == IF raw = "A@x.com" THEN "a@x.com" ELSE raw

\* Math.floor(100000 + Math.random() * 900000).toString(), with
\* u = Math.floor(Math.random() * 900000); a six-digit string is kept as its number
GenerateOtp(u) == OTP_BASE + u

Codes == {GenerateOtp(u) : u \in RandomDraws}

\* bcrypt.hash(password, 10)
Hash(pw) == <<"bcrypt", pw>>

\* a validation that accepts a password of any length
PasswordAlwaysOk(pw) == TRUE

\* body('password').isLength({ min: 6 })
PasswordOk(pw) == Len(pw) >= MIN_PASSWORD

\* --------------------------------------------------------- store queries
Max(S) == CHOOSE x \in S : \A y \in S : y <= x

RowIds == 1 .. Len(otps)

\* the filter without its expiresAt condition
LiveUnusedOnly(r, t) == ~r.isUsed

\* where: { isUsed: false, expiresAt: { gt: t } }
Live(r, t) == ~r.isUsed /\ r.expiresAt > t

\* the rows of (email, purpose) that are unused and unexpired at time t
LiveRows(rows, e, purpose, t) ==
  {i \in 1 .. Len(rows) : rows[i].email = e /\ rows[i].purpose = purpose /\ Live(rows[i], t)}

\* an issue that skips the updateMany
InvalidateNothing(rows, e, purpose, t) == rows

\* an issue that deletes the live rows of the pair
DeleteLive(rows, e, purpose, t) ==
  SelectSeq(rows, LAMBDA r : ~(r.email = e /\ r.purpose = purpose /\ Live(r, t)))

\* prisma.oTP.updateMany({ where: { email, purpose, isUsed: false,
\*   expiresAt: { gt: new Date() } }, data: { isUsed: true } })
InvalidateLive(rows, e, purpose, t) ==
  [i \in 1 .. Len(rows) |->
     IF i \in LiveRows(rows, e, purpose, t) THEN [rows[i] EXCEPT !.isUsed = TRUE] ELSE rows[i]]

\* prisma.oTP.create({ data: { email, otp, purpose, expiresAt } }); isUsed defaults to false
NewOtpRow(e, code, purpose, exp) ==
  [email |-> e, otp |-> code, purpose |-> purpose, isUsed |-> FALSE, expiresAt |-> exp]

\* the lookup without its isUsed condition
FindUnexpiredOtp(rows, e, code, purpose, t) ==
  LET S == {i \in 1 .. Len(rows) : /\ rows[i].email = e /\ rows[i].purpose = purpose
                                   /\ rows[i].otp = code /\ rows[i].expiresAt > t}
  IN  IF S = {} THEN NoRow ELSE Max(S)

\* the lookup without its purpose condition
FindValidOtpAnyPurpose(rows, e, code, purpose, t) ==
  LET S == {i \in 1 .. Len(rows) : rows[i].email = e /\ rows[i].otp = code /\ Live(rows[i], t)}
  IN  IF S = {} THEN NoRow ELSE Max(S)

\* prisma.oTP.findFirst({ where: { email, otp, purpose, isUsed: false,
\*   expiresAt: { gt: new Date() } }, orderBy: { createdAt: 'desc' } })
FindValidOtp(rows, e, code, purpose, t) ==
  LET S == {i \in LiveRows(rows, e, purpose, t) : rows[i].otp = code}
  IN  IF S = {} THEN NoRow ELSE Max(S)

\* a lookup of used rows without the filter on expiresAt
FindUsedOtpAnyAge(rows, e, purpose, since) ==
  LET S == {i \in 1 .. Len(rows) : /\ rows[i].email = e
                                   /\ rows[i].purpose = purpose
                                   /\ rows[i].isUsed}
  IN  IF S = {} THEN NoRow ELSE Max(S)

\* prisma.oTP.findFirst({ where: { email, purpose, isUsed: true,
\*   expiresAt: { gt: new Date(Date.now() - window) } }, orderBy: { createdAt: 'desc' } })
FindUsedOtp(rows, e, purpose, since) ==
  LET S == {i \in 1 .. Len(rows) : /\ rows[i].email = e
                                   /\ rows[i].purpose = purpose
                                   /\ rows[i].isUsed
                                   /\ rows[i].expiresAt > since}
  IN  IF S = {} THEN NoRow ELSE Max(S)

\* a verify that skips the update
MarkNothing(rows, i) == rows

\* an update without its where clause
MarkAllUsed(rows, i) == [k \in 1 .. Len(rows) |-> [rows[k] EXCEPT !.isUsed = TRUE]]

\* prisma.oTP.update({ where: { id }, data: { isUsed: true } })
MarkUsed(rows, i) == [rows EXCEPT ![i].isUsed = TRUE]

\* a verification token that lives 15 minutes
VerificationTokenLongLived(e) ==
  [type |-> "verification", email |-> e, userId |-> "", iat |-> now,
   exp |-> now + VERIFY_TOKEN_TTL + 1, key |-> "JWT_SECRET"]

\* jwt.sign({ email, type: 'verification' }, JWT_SECRET, { expiresIn: '10m' });
\* jwt.sign adds iat, the time of signing
VerificationToken(e) ==
  [type |-> "verification", email |-> e, userId |-> "", iat |-> now,
   exp |-> now + VERIFY_TOKEN_TTL, key |-> "JWT_SECRET"]

\* a reset token that lives 20 minutes
ResetTokenLongLived(e, uid) ==
  [type |-> "password_reset", email |-> e, userId |-> uid, iat |-> now,
   exp |-> now + RESET_TOKEN_TTL + 1, key |-> "JWT_SECRET"]

\* jwt.sign({ email, userId, type: 'password_reset' }, JWT_SECRET, { expiresIn: '15m' })
ResetToken(e, uid) ==
  [type |-> "password_reset", email |-> e, userId |-> uid, iat |-> now,
   exp |-> now + RESET_TOKEN_TTL, key |-> "JWT_SECRET"]

\* jwt.verify(token, JWT_SECRET): throws unless the token was signed with
\* JWT_SECRET and its exp is ahead
JwtVerifies(tok) == tok.key = "JWT_SECRET" /\ now < tok.exp

\* tokens made by a caller without JWT_SECRET, with the payload of its choice
ForgedTokens ==
  {[type |-> "verification", email |-> "b@x.com", userId |-> "", iat |-> 0, exp |-> MaxTime + 1,
    key |-> "forged"],
   [type |-> "password_reset", email |-> "a@x.com", userId |-> "a@x.com", iat |-> 0,
    exp |-> MaxTime + 1,
    key |-> "forged"]}

\* the tokens a caller can present: those signed here and not yet expired, or
\* forged ones
Presentable == jwts \cup ForgedTokens

\* ------------------------------------------------------------- responses
Reply(status, msg) == [NoResp EXCEPT !.status = status, !.msg = msg]

\* res.json({ success: true, message, otpStatus: 'PENDING_VERIFICATION', otpExpiresAt })
OtpReply(msg, exp) ==
  [NoResp EXCEPT !.status = 200, !.msg = msg, !.otpStatus = "PENDING_VERIFICATION",
                 !.otpExpiresAt = exp]

TokenReply(status, msg, tok) == [NoResp EXCEPT !.status = status, !.msg = msg, !.token = tok]

\* an answer that tells the caller the account does not exist
NotFoundReply(t) == Reply(404, "User not found")

\* reset-password for an unknown e-mail: fakeExpiresAt = new Date(Date.now() + 10 min),
\* res.json({ success: true, message, otpStatus, otpExpiresAt: fakeExpiresAt })
FakeResetReply(t) == OtpReply("If email exists, password reset OTP sent", t + RESET_OTP_TTL)

\* send-otp without the try around the dispatch: a throw reaches the outer catch
SendOtpReplyFailing(exp, thrown) ==
  IF thrown
  THEN Reply(500, "Failed to send OTP")
  ELSE OtpReply("OTP sent to your email. Please check your inbox.", exp)

\* send-otp: the response after the dispatch was started, or from the catch
\* around it
SendOtpReply(exp, thrown) ==
  IF thrown
  THEN OtpReply("OTP created. If you don't receive an email, please try again.", exp)
  ELSE OtpReply("OTP sent to your email. Please check your inbox.", exp)

\* reset-password: the response after the dispatch was started, or from the
\* catch around it
ResetPasswordReply(exp, thrown) == OtpReply("If email exists, password reset OTP sent", exp)

InvalidCode == Reply(400, "Invalid or expired OTP")
InvalidResetCode == Reply(400, "Invalid or expired reset code")

\* ------------------------------------------------------- request plumbing
NoReq ==
  [op |-> "none", email |-> "", otp |-> 0, password |-> "", role |-> "",
   token |-> NoToken, row |-> NoRow, expiresAt |-> 0, user |-> NoUser]

NoSent == [req |-> NoReq, reply |-> NoResp]

\* no update-password has succeeded yet
NoneRedeemed == [once |-> {}, again |-> {}]

NoMail == [to |-> "", otp |-> 0, kind |-> "", outcome |-> ""]

\* sendOTP(email, otp) / sendPasswordResetOTP(dbEmail, otp) is called: the call
\* throws, or returns the promise of a dispatch that has started
Dispatch(e, code, kind, thrown) ==
  [to |-> e, otp |-> code, kind |-> kind, outcome |-> IF thrown THEN "thrown" ELSE "started"]

\* the step answers request r (with the handler's locals) with reply
Respond(r, reply) == sent' = [req |-> r, reply |-> reply]

\* the step writes no response
Quiet == sent' = NoSent

TypeOK ==
  /\ now \in 0 .. MaxTime
  /\ Len(otps) <= MaxRows
  /\ Len(consumed) = Len(otps)
  /\ \A i \in RowIds : otps[i].email \in Emails /\ otps[i].otp \in Codes
  /\ DOMAIN users = Emails

\* one registered account (a@x.com, registered without OTP) and one free e-mail
Init ==
  /\ now = 0
  /\ users = [e \in Emails |->
               IF e = "a@x.com"
               THEN [id |-> e, passwordHash |-> Hash("secret1"), role |-> "STUDENT",
                     status |-> "ACTIVE", emailVerified |-> FALSE, lastLoginAt |-> NoDate]
               ELSE NoUser]
  /\ otps = <<>>
  /\ refreshTokens = {}
  /\ profiles = {[kind |-> "STUDENT", userId |-> "a@x.com"]}
  /\ jwts = {}
  /\ mail = NoMail
  /\ pc = [p \in Procs |-> "idle"]
  /\ req = [p \in Procs |-> NoReq]
  /\ sent = NoSent
  /\ consumed = <<>>
  /\ issued = 0
  /\ redeemed = NoneRedeemed

\* two registered accounts, a@x.com (STUDENT) and b@x.com (RECRUITER), both
\* registered without OTP and logged out: register stores status PENDING for
\* the RECRUITER and ACTIVE for the STUDENT
InitTwoAccounts ==
  /\ now = 0
  /\ users = [e \in Emails |->
               [id |-> e, passwordHash |-> Hash("secret1"),
                role |-> IF e = "a@x.com" THEN "STUDENT" ELSE "RECRUITER",
                status |-> IF e = "a@x.com" THEN "ACTIVE" ELSE "PENDING",
                emailVerified |-> FALSE, lastLoginAt |-> NoDate]]
  /\ otps = <<>>
  /\ refreshTokens = {}
  /\ profiles = {[kind |-> "STUDENT", userId |-> "a@x.com"],
                 [kind |-> "RECRUITER", userId |-> "b@x.com"]}
  /\ jwts = {}
  /\ mail = NoMail
  /\ pc = [p \in Procs |-> "idle"]
  /\ req = [p \in Procs |-> NoReq]
  /\ sent = NoSent
  /\ consumed = <<>>
  /\ issued = 0
  /\ redeemed = NoneRedeemed

\* the registered account a@x.com has logged in at time 0: its refresh token
\* is stored for 7 days
InitLoggedIn ==
  /\ now = 0
  /\ users = [e \in Emails |->
               IF e = "a@x.com"
               THEN [id |-> e, passwordHash |-> Hash("secret1"), role |-> "STUDENT",
                     status |-> "ACTIVE", emailVerified |-> FALSE, lastLoginAt |-> 0]
               ELSE NoUser]
  /\ otps = <<>>
  /\ refreshTokens = {[type |-> "refresh", userId |-> "a@x.com", token |-> 1,
                       expiresAt |-> REFRESH_TTL]}
  /\ profiles = {[kind |-> "STUDENT", userId |-> "a@x.com"]}
  /\ jwts = {}
  /\ mail = NoMail
  /\ pc = [p \in Procs |-> "idle"]
  /\ req = [p \in Procs |-> NoReq]
  /\ sent = NoSent
  /\ consumed = <<>>
  /\ issued = 1
  /\ redeemed = NoneRedeemed

\* two accounts registered at time 0, each with the refresh token stored by
\* its register
InitTwoSessions ==
  /\ now = 0
  /\ users = [e \in Emails |->
               [id |-> e, passwordHash |-> Hash("secret1"),
                role |-> IF e = "a@x.com" THEN "STUDENT" ELSE "ADMIN",
                status |-> "ACTIVE", emailVerified |-> FALSE, lastLoginAt |-> NoDate]]
  /\ otps = <<>>
  /\ refreshTokens = {[type |-> "refresh", userId |-> "a@x.com", token |-> 1,
                       expiresAt |-> REFRESH_TTL],
                      [type |-> "refresh", userId |-> "b@x.com", token |-> 2,
                       expiresAt |-> REFRESH_TTL]}
  /\ profiles = {[kind |-> "STUDENT", userId |-> "a@x.com"],
                 [kind |-> "ADMIN", userId |-> "b@x.com"]}
  /\ jwts = {}
  /\ mail = NoMail
  /\ pc = [p \in Procs |-> "idle"]
  /\ req = [p \in Procs |-> NoReq]
  /\ sent = NoSent
  /\ consumed = <<>>
  /\ issued = 2
  /\ redeemed = NoneRedeemed

\* the clock advances up to limit; a token whose exp is reached is from now on
\* refused like one never signed, and is dropped from jwts
Advance(limit) ==
  /\ now < limit
  /\ now' = now + 1
  /\ jwts' = {t \in jwts : t.exp > now + 1}
  /\ redeemed' = [once |-> {t \in redeemed.once : t.exp > now + 1},
                  again |-> {t \in redeemed.again : t.exp > now + 1}]
  /\ UNCHANGED <<users, otps, refreshTokens, profiles, mail, pc, req, sent, consumed, issued>>

\* the clock of the specifications that run over MaxTime units
Tick == Advance(MaxTime)

\* =========================================================================
\* The routes: one step per store call (await)
\* =========================================================================

\* the client receives the response
Receive ==
  /\ sent # NoSent
  /\ sent' = NoSent
  /\ mail' = NoMail
  /\ UNCHANGED <<now, users, otps, refreshTokens, profiles, jwts, pc, req, consumed, issued, redeemed>>

\* the promise of a started dispatch rejects: .catch logs the error
DispatchRejected ==
  /\ mail.outcome = "started"
  /\ mail' = [mail EXCEPT !.outcome = "rejected"]
  /\ UNCHANGED <<now, users, otps, refreshTokens, profiles, jwts, pc, req, sent, consumed, issued, redeemed>>

\* the last response has been received
Served == sent = NoSent

\* a new request takes the lowest free slot
Free(p) == pc[p] = "idle" /\ \A q \in Procs : q < p => pc[q] # "idle"

\* the handlers that have yet to insert their OTP row
Issuing == {p \in Procs : pc[p] \in {"so_invalidate", "so_create", "rp_find2", "rp_invalidate", "rp_create"}}

RoomForRow == Len(otps) + Cardinality(Issuing) < MaxRows

\* the handlers that have yet to store their refresh token
Opening == {p \in Procs : pc[p] \in {"rg_find", "rg_hash", "rg_create", "rg_token",
                                  "li_compare", "li_update", "li_token"}}

RoomForSession == issued + Cardinality(Opening) < MaxSessions

\* the handler in slot p goes on to the await at label with locals r
Continue(p, label, r) == pc' = [pc EXCEPT ![p] = label] /\ req' = [req EXCEPT ![p] = r]

\* the handler in slot p answers request r with reply and ends
Finish(p, r, reply) ==
  /\ pc' = [pc EXCEPT ![p] = "idle"]
  /\ req' = [req EXCEPT ![p] = NoReq]
  /\ Respond(r, reply)

\* ---------------------------------------------------------- POST /send-otp
\* send-otp without the check for an existing user
SendOtpFindUserWithoutCheck(p) ==
  /\ Free(p)
  /\ RoomForRow
  /\ \E raw \in RawEmails :
       Continue(p, "so_invalidate", [NoReq EXCEPT !.op = "send-otp", !.email = NormalizeEmail(raw)])
  /\ Quiet
  /\ mail' = NoMail
  /\ UNCHANGED <<now, users, otps, refreshTokens, profiles, jwts, consumed, issued, redeemed>>

\* the request arrives; prisma.user.findUnique({ where: { email } })
SendOtpFindUser(p) ==
  /\ Free(p)
  /\ \E raw \in RawEmails :
       LET e == NormalizeEmail(raw)
           r == [NoReq EXCEPT !.op = "send-otp", !.email = e]
       IN  IF users[e] # NoUser
           THEN Finish(p, r, Reply(400, "Email already registered"))
           ELSE RoomForRow /\ Continue(p, "so_invalidate", r) /\ Quiet
  /\ mail' = NoMail
  /\ UNCHANGED <<now, users, otps, refreshTokens, profiles, jwts, consumed, issued, redeemed>>

\* the code and expiresAt are computed; prisma.oTP.updateMany
SendOtpInvalidate(p) ==
  /\ pc[p] = "so_invalidate"
  /\ \E u \in RandomDraws :
       Continue(p, "so_create",
                [req[p] EXCEPT !.otp = GenerateOtp(u), !.expiresAt = now + VERIFY_OTP_TTL])
  /\ otps' = InvalidateLive(otps, req[p].email, "VERIFY_EMAIL", now)
  /\ Quiet
  /\ mail' = NoMail
  /\ UNCHANGED <<now, users, refreshTokens, profiles, jwts, consumed, issued, redeemed>>

\* prisma.oTP.create, the e-mail is handed over, the response
SendOtpCreate(p) ==
  /\ pc[p] = "so_create"
  /\ otps' = Append(otps, NewOtpRow(req[p].email, req[p].otp, "VERIFY_EMAIL", req[p].expiresAt))
  /\ consumed' = Append(consumed, 0)
  /\ \E thrown \in BOOLEAN :
       /\ mail' = Dispatch(req[p].email, req[p].otp, "VERIFY_EMAIL", thrown)
       /\ Finish(p, [req[p] EXCEPT !.row = Len(otps) + 1], SendOtpReply(req[p].expiresAt, thrown))
  /\ UNCHANGED <<now, users, refreshTokens, profiles, jwts, issued, redeemed>>

\* ---------------------------------------------------- POST /reset-password
\* the request arrives; prisma.user.findUnique({ where: { email: normalizedEmail } })
ResetPasswordFindUser(p) ==
  /\ Free(p)
  /\ RoomForRow
  /\ \E raw \in RawEmails :
       LET e == NormalizeEmail(raw)
           r == [NoReq EXCEPT !.op = "reset-password", !.email = e]
       IN  IF users[e] = NoUser
           THEN Continue(p, "rp_find2", r)
           ELSE Continue(p, "rp_invalidate", r)
  /\ Quiet
  /\ mail' = NoMail
  /\ UNCHANGED <<now, users, otps, refreshTokens, profiles, jwts, consumed, issued, redeemed>>

\* prisma.user.findUnique({ where: { email } }), the second try; without a
\* user the response with fakeExpiresAt
ResetPasswordFindUserAgain(p) ==
  /\ pc[p] = "rp_find2"
  /\ IF users[req[p].email] = NoUser
     THEN Finish(p, req[p], FakeResetReply(now))
     ELSE Continue(p, "rp_invalidate", req[p]) /\ Quiet
  /\ mail' = NoMail
  /\ UNCHANGED <<now, users, otps, refreshTokens, profiles, jwts, consumed, issued, redeemed>>

\* the code and expiresAt are computed; prisma.oTP.updateMany
ResetPasswordInvalidate(p) ==
  /\ pc[p] = "rp_invalidate"
  /\ \E u \in RandomDraws :
       Continue(p, "rp_create",
                [req[p] EXCEPT !.otp = GenerateOtp(u), !.expiresAt = now + RESET_OTP_TTL])
  /\ otps' = InvalidateLive(otps, req[p].email, "RESET_PASSWORD", now)
  /\ Quiet
  /\ mail' = NoMail
  /\ UNCHANGED <<now, users, refreshTokens, profiles, jwts, consumed, issued, redeemed>>

\* prisma.oTP.create, the e-mail is handed over, the response
ResetPasswordCreate(p) ==
  /\ pc[p] = "rp_create"
  /\ otps' = Append(otps, NewOtpRow(req[p].email, req[p].otp, "RESET_PASSWORD", req[p].expiresAt))
  /\ consumed' = Append(consumed, 0)
  /\ \E thrown \in BOOLEAN :
       /\ mail' = Dispatch(req[p].email, req[p].otp, "RESET_PASSWORD", thrown)
       /\ Finish(p, [req[p] EXCEPT !.row = Len(otps) + 1],
                 ResetPasswordReply(req[p].expiresAt, thrown))
  /\ UNCHANGED <<now, users, refreshTokens, profiles, jwts, issued, redeemed>>

\* -------------------------------------------------------- POST /verify-otp
\* the request arrives; prisma.oTP.findFirst
VerifyOtpFind(p) ==
  /\ Free(p)
  /\ \E raw \in RawEmails, code \in Codes :
       LET e == NormalizeEmail(raw)
           r == [NoReq EXCEPT !.op = "verify-otp", !.email = e, !.otp = code]
           i == FindValidOtp(otps, e, code, "VERIFY_EMAIL", now)
       IN  IF i = NoRow
           THEN Finish(p, r, InvalidCode)
           ELSE Continue(p, "vo_update", [r EXCEPT !.row = i]) /\ Quiet
  /\ mail' = NoMail
  /\ UNCHANGED <<now, users, otps, refreshTokens, profiles, jwts, consumed, issued, redeemed>>

\* prisma.oTP.update, then the token is signed and sent
VerifyOtpUpdate(p) ==
  /\ pc[p] = "vo_update"
  /\ otps' = MarkUsed(otps, req[p].row)
  /\ consumed' = [consumed EXCEPT ![req[p].row] = @ + 1]
  /\ jwts' = jwts \cup {VerificationToken(req[p].email)}
  /\ Finish(p, req[p], TokenReply(200, "OTP verified successfully", VerificationToken(req[p].email)))
  /\ mail' = NoMail
  /\ UNCHANGED <<now, users, refreshTokens, profiles, issued, redeemed>>

\* -------------------------------------------------- POST /verify-reset-otp
\* the request arrives; prisma.user.findUnique
VerifyResetOtpFindUser(p) ==
  /\ Free(p)
  /\ \E raw \in RawEmails, code \in Codes :
       LET e == NormalizeEmail(raw)
           r == [NoReq EXCEPT !.op = "verify-reset-otp", !.email = e, !.otp = code]
       IN  IF users[e] = NoUser
           THEN Finish(p, r, InvalidResetCode)
           ELSE Continue(p, "vr_find", r) /\ Quiet
  /\ mail' = NoMail
  /\ UNCHANGED <<now, users, otps, refreshTokens, profiles, jwts, consumed, issued, redeemed>>

\* prisma.oTP.findFirst
VerifyResetOtpFind(p) ==
  /\ pc[p] = "vr_find"
  /\ LET i == FindValidOtp(otps, req[p].email, req[p].otp, "RESET_PASSWORD", now)
     IN  IF i = NoRow
         THEN Finish(p, req[p], InvalidResetCode)
         ELSE Continue(p, "vr_update", [req[p] EXCEPT !.row = i]) /\ Quiet
  /\ mail' = NoMail
  /\ UNCHANGED <<now, users, otps, refreshTokens, profiles, jwts, consumed, issued, redeemed>>

\* prisma.oTP.update, then the token is signed and sent
VerifyResetOtpUpdate(p) ==
  /\ pc[p] = "vr_update"
  /\ otps' = MarkUsed(otps, req[p].row)
  /\ consumed' = [consumed EXCEPT ![req[p].row] = @ + 1]
  /\ jwts' = jwts \cup {ResetToken(req[p].email, users[req[p].email].id)}
  /\ Finish(p, req[p], TokenReply(200, "Reset code verified successfully",
                                  ResetToken(req[p].email, users[req[p].email].id)))
  /\ mail' = NoMail
  /\ UNCHANGED <<now, users, refreshTokens, profiles, issued, redeemed>>

\* ---------------------------------------------------------- POST /register
\* the checks with the token decoded but its signature not verified
RegisterTokenCheckDecodeOnly(e, tok) ==
  IF tok.email # e \/ tok.type # "verification"
  THEN Reply(400, "Email verification failed")
  ELSE IF FindUsedOtp(otps, e, "VERIFY_EMAIL", now - REGISTER_WINDOW) = NoRow
  THEN Reply(400, "Email verification required. Please verify OTP first.")
  ELSE NoResp

\* the checks made when a verificationToken came, up to prisma.oTP.findFirst:
\* the reply that refuses the request, or NoResp when they pass
RegisterTokenCheck(e, tok) ==
  IF ~JwtVerifies(tok)
  THEN Reply(400, "Invalid verification token. Please verify OTP first.")
  ELSE IF tok.email # e \/ tok.type # "verification"
  THEN Reply(400, "Email verification failed")
  ELSE IF FindUsedOtp(otps, e, "VERIFY_EMAIL", now - REGISTER_WINDOW) = NoRow
  THEN Reply(400, "Email verification required. Please verify OTP first.")
  ELSE NoResp

\* a user created as verified whatever the token check said
NewUserVerified(e, pw, role, verified) ==
  [id |-> e, passwordHash |-> Hash(pw), role |-> role,
   status |-> IF role = "RECRUITER" THEN "PENDING" ELSE "ACTIVE",
   emailVerified |-> TRUE, lastLoginAt |-> NoDate]

\* tx.user.create({ data: userData })
NewUser(e, pw, role, verified) ==
  [id |-> e, passwordHash |-> Hash(pw), role |-> role,
   status |-> IF role = "RECRUITER" THEN "PENDING" ELSE "ACTIVE",
   emailVerified |-> verified, lastLoginAt |-> NoDate]

\* generateRefreshToken(user.id): an opaque value, new at every call
GenerateRefreshToken == issued + 1

\* prisma.refreshToken.create({ data: { userId, token, expiresAt } })
NewRefreshToken(uid) ==
  [type |-> "refresh", userId |-> uid, token |-> GenerateRefreshToken,
   expiresAt |-> now + REFRESH_TTL]

\* a User table without the unique constraint on email
NoConstraint(e) == FALSE

\* tx.user.create for an e-mail that a User row already holds: email is the
\* unique key of User (findUnique({ where: { email } })), the create throws
UniqueViolation(e) == users[e] # NoUser

\* const existing = prisma.user.findUnique({ where: { email } }) of register
\* in slot p with locals r
RegisterLookup(p, r) ==
  IF users[r.email] # NoUser
  THEN Finish(p, r, Reply(400, "Email already registered"))
  ELSE Continue(p, "rg_hash", r) /\ Quiet

\* the request arrives with a verificationToken: validation, jwt.verify, the
\* checks of the payload, prisma.oTP.findFirst
RegisterCheckToken(p) ==
  /\ Free(p)
  /\ RoomForSession
  /\ \E raw \in RawEmails, pw \in Passwords, role \in Roles, tok \in Presentable :
       LET e == NormalizeEmail(raw)
           r == [NoReq EXCEPT !.op = "register", !.email = e, !.password = pw,
                              !.role = role, !.token = tok]
           refused == IF ~PasswordOk(pw) THEN Reply(400, "validation")
                      ELSE RegisterTokenCheck(e, tok)
       IN  IF refused # NoResp
           THEN Finish(p, r, refused)
           ELSE Continue(p, "rg_find", r) /\ Quiet
  /\ mail' = NoMail
  /\ UNCHANGED <<now, users, otps, refreshTokens, profiles, jwts, consumed, issued, redeemed>>

\* the request arrives without a verificationToken: validation, then
\* prisma.user.findUnique
RegisterNoToken(p) ==
  /\ Free(p)
  /\ RoomForSession
  /\ \E raw \in RawEmails, pw \in Passwords, role \in Roles :
       LET r == [NoReq EXCEPT !.op = "register", !.email = NormalizeEmail(raw),
                              !.password = pw, !.role = role]
       IN  IF ~PasswordOk(pw)
           THEN Finish(p, r, Reply(400, "validation"))
           ELSE RegisterLookup(p, r)
  /\ mail' = NoMail
  /\ UNCHANGED <<now, users, otps, refreshTokens, profiles, jwts, consumed, issued, redeemed>>

\* prisma.user.findUnique, after the checks of the verificationToken
RegisterFindUser(p) ==
  /\ pc[p] = "rg_find"
  /\ RegisterLookup(p, req[p])
  /\ mail' = NoMail
  /\ UNCHANGED <<now, users, otps, refreshTokens, profiles, jwts, consumed, issued, redeemed>>

\* await bcrypt.hash(password, 10) resolves: the hash is a function of the
\* password the handler holds, no table is read or written
RegisterHash(p) ==
  /\ pc[p] = "rg_hash"
  /\ Continue(p, "rg_create", req[p])
  /\ Quiet
  /\ mail' = NoMail
  /\ UNCHANGED <<now, users, otps, refreshTokens, profiles, jwts, consumed, issued, redeemed>>

\* prisma.$transaction: tx.user.create and the create of the role's profile
\* commit together, or a throw undoes both and the catch answers 500
RegisterCreate(p) ==
  /\ pc[p] = "rg_create"
  /\ LET e == req[p].email
     IN  IF UniqueViolation(e)
         THEN /\ Finish(p, req[p], Reply(500, "Registration failed"))
              /\ UNCHANGED <<users, profiles>>
         ELSE /\ users' = [users EXCEPT ![e] = NewUser(e, req[p].password, req[p].role,
                                                       req[p].token # NoToken)]
              /\ profiles' = profiles \cup {[kind |-> req[p].role, userId |-> e]}
              /\ Continue(p, "rg_token", req[p]) /\ Quiet
  /\ mail' = NoMail
  /\ UNCHANGED <<now, otps, refreshTokens, jwts, consumed, issued, redeemed>>

\* the tokens are generated; prisma.refreshToken.create, then res.status(201)
RegisterSaveToken(p) ==
  /\ pc[p] = "rg_token"
  /\ refreshTokens' = refreshTokens \cup {NewRefreshToken(req[p].email)}
  /\ issued' = issued + 1
  /\ Finish(p, req[p], TokenReply(201, "registered", NewRefreshToken(req[p].email)))
  /\ mail' = NoMail
  /\ UNCHANGED <<now, users, otps, profiles, jwts, consumed, redeemed>>

\* --------------------------------------------------- POST /update-password
\* the checks without the one of the token's type
UpdatePasswordCheckAnyType(tok, pw) ==
  IF ~PasswordOk(pw)
  THEN Reply(400, "validation")
  ELSE IF ~JwtVerifies(tok)
  THEN Reply(400, "Invalid or expired reset token")
  ELSE NoResp

\* the checks with the token decoded but its signature not verified
UpdatePasswordCheckDecodeOnly(tok, pw) ==
  IF ~PasswordOk(pw)
  THEN Reply(400, "validation")
  ELSE IF tok.type # "password_reset"
  THEN Reply(400, "Invalid reset token")
  ELSE NoResp

\* the checks of a server that revokes a reset token at its first use
UpdatePasswordCheckSingleUse(tok, pw) ==
  IF ~PasswordOk(pw)
  THEN Reply(400, "validation")
  ELSE IF ~JwtVerifies(tok) \/ tok \in redeemed.once
  THEN Reply(400, "Invalid or expired reset token")
  ELSE IF tok.type # "password_reset"
  THEN Reply(400, "Invalid reset token")
  ELSE NoResp

\* the checks made before the first store call: the reply that refuses the
\* request, or NoResp
UpdatePasswordCheck(tok, pw) ==
  IF ~PasswordOk(pw)
  THEN Reply(400, "validation")
  ELSE IF ~JwtVerifies(tok)
  THEN Reply(400, "Invalid or expired reset token")
  ELSE IF tok.type # "password_reset"
  THEN Reply(400, "Invalid reset token")
  ELSE NoResp

\* an update-password that ends the user's sessions
RevokeSessions(rows, uid) == {row \in rows : row.userId # uid}

\* POST /update-password makes no call on table RefreshToken: the table after it
SessionsAfterUpdate(rows, uid) == rows

\* the request arrives: validation, jwt.verify, the type of the token;
\* prisma.user.findUnique({ where: { email: decoded.email } })
UpdatePasswordFindUser(p) ==
  /\ Free(p)
  /\ \E tok \in Presentable, pw \in Passwords :
       LET r == [NoReq EXCEPT !.op = "update-password", !.token = tok, !.password = pw]
           refused == IF UpdatePasswordCheck(tok, pw) # NoResp
                      THEN UpdatePasswordCheck(tok, pw)
                      ELSE IF users[tok.email] = NoUser
                      THEN Reply(400, "User not found")
                      ELSE NoResp
       IN  IF refused # NoResp
           THEN Finish(p, r, refused)
           ELSE Continue(p, "up_find", [r EXCEPT !.email = tok.email]) /\ Quiet
  /\ mail' = NoMail
  /\ UNCHANGED <<now, users, otps, refreshTokens, profiles, jwts, consumed, issued, redeemed>>

\* prisma.oTP.findFirst: a used RESET_PASSWORD row of the last 15 minutes
UpdatePasswordFindOtp(p) ==
  /\ pc[p] = "up_find"
  /\ IF FindUsedOtp(otps, req[p].email, "RESET_PASSWORD", now - UPDATE_WINDOW) = NoRow
     THEN Finish(p, req[p],
                 Reply(400, "Reset code verification required. Please verify OTP first."))
     ELSE Continue(p, "up_hash", req[p]) /\ Quiet
  /\ mail' = NoMail
  /\ UNCHANGED <<now, users, otps, refreshTokens, profiles, jwts, consumed, issued, redeemed>>

\* await bcrypt.hash(password, 10) resolves: the hash is a function of the
\* password the handler holds, no table is read or written
UpdatePasswordHash(p) ==
  /\ pc[p] = "up_hash"
  /\ Continue(p, "up_update", req[p])
  /\ Quiet
  /\ mail' = NoMail
  /\ UNCHANGED <<now, users, otps, refreshTokens, profiles, jwts, consumed, issued, redeemed>>

\* prisma.user.update({ where: { id }, data: { passwordHash } }) and the
\* response
UpdatePasswordUpdate(p) ==
  /\ pc[p] = "up_update"
  /\ users' = [users EXCEPT ![req[p].email].passwordHash = Hash(req[p].password)]
  /\ refreshTokens' = SessionsAfterUpdate(refreshTokens, users[req[p].email].id)
  /\ redeemed' = [once |-> redeemed.once \cup {req[p].token},
                  again |-> redeemed.again \cup ({req[p].token} \cap redeemed.once)]
  /\ Finish(p, req[p], Reply(200, "Password updated successfully"))
  /\ mail' = NoMail
  /\ UNCHANGED <<now, otps, profiles, jwts, consumed, issued>>

\* ------------------------------------------------------------ the sessions
Statuses == {"PENDING", "ACTIVE", "BLOCKED"}

\* body('password').notEmpty() of login: the password of a@x.com and another one
LoginPasswords == {"secret1", "wrong1"}

\* selectedRole || roleFromBody: a role, or none given
NoRole == ""
ExpectedRoles == Roles \cup {NoRole}

\* bcrypt.compare(password, user.passwordHash)
Compare(pw, h) == Hash(pw) = h

\* generateAccessToken(user.id): a signed token carrying the userId
AccessToken(uid) == [type |-> "access", userId |-> uid]

\* a refresh token as a caller presents it
RefreshCredential(v) == [type |-> "refresh", token |-> v]

\* what a caller can send as refreshToken: nothing, a value generated here, or
\* a value never generated (0)
PresentableRefresh == {NoToken} \cup {RefreshCredential(v) : v \in 0 .. issued}

\* POST /login, the checks on the account once the password matched: the reply
\* that refuses the login, or NoResp
LoginGate(user, role) ==
  IF role # NoRole /\ user.role # role
  THEN Reply(403, "Invalid role for this account")
  ELSE IF user.status = "BLOCKED"
  THEN Reply(403, "Account is blocked")
  ELSE NoResp

\* a login that tells an unknown e-mail from a wrong password
LoginCredentialsRevealing(user, pw) ==
  IF user = NoUser
  THEN Reply(404, "User not found")
  ELSE IF ~Compare(pw, user.passwordHash)
  THEN Reply(401, "Invalid credentials")
  ELSE NoResp

\* POST /login, the checks of the credentials on the row user that findUnique
\* returned (NoUser for null): the reply that refuses the login, or NoResp
LoginCredentials(user, pw) ==
  IF user = NoUser
  THEN Reply(401, "Invalid credentials")
  ELSE IF ~Compare(pw, user.passwordHash)
  THEN Reply(401, "Invalid credentials")
  ELSE NoResp

\* POST /login: the request arrives; prisma.user.findUnique.  Without a user
\* the response follows at once, with one the handler keeps the row it read
\* and waits for bcrypt.compare
LoginFindUser(p) ==
  /\ Free(p)
  /\ RoomForSession
  /\ \E raw \in RawEmails, pw \in LoginPasswords, role \in ExpectedRoles :
       LET e == NormalizeEmail(raw)
           r == [NoReq EXCEPT !.op = "login", !.email = e, !.password = pw, !.role = role]
       IN  IF users[e] = NoUser
           THEN Finish(p, r, LoginCredentials(NoUser, pw))
           ELSE Continue(p, "li_compare", [r EXCEPT !.user = users[e]]) /\ Quiet
  /\ mail' = NoMail
  /\ UNCHANGED <<now, users, otps, refreshTokens, profiles, jwts, consumed, issued, redeemed>>

\* POST /login: await bcrypt.compare resolves; the checks of password, role
\* and status on the row read by findUnique
LoginCompare(p) ==
  /\ pc[p] = "li_compare"
  /\ LET refused == IF LoginCredentials(req[p].user, req[p].password) # NoResp
                    THEN LoginCredentials(req[p].user, req[p].password)
                    ELSE LoginGate(req[p].user, req[p].role)
     IN  IF refused # NoResp
         THEN Finish(p, req[p], refused)
         ELSE Continue(p, "li_update", req[p]) /\ Quiet
  /\ mail' = NoMail
  /\ UNCHANGED <<now, users, otps, refreshTokens, profiles, jwts, consumed, issued, redeemed>>

\* POST /login: prisma.user.update({ data: { lastLoginAt: new Date() } })
LoginUpdate(p) ==
  /\ pc[p] = "li_update"
  /\ users' = [users EXCEPT ![req[p].user.id].lastLoginAt = now]
  /\ Continue(p, "li_token", req[p])
  /\ Quiet
  /\ mail' = NoMail
  /\ UNCHANGED <<now, otps, refreshTokens, profiles, jwts, consumed, issued, redeemed>>

\* POST /login: the tokens are generated; prisma.refreshToken.create, then
\* the response
LoginSaveToken(p) ==
  /\ pc[p] = "li_token"
  /\ refreshTokens' = refreshTokens \cup {NewRefreshToken(req[p].user.id)}
  /\ issued' = issued + 1
  /\ Finish(p, req[p], TokenReply(200, "logged in", NewRefreshToken(req[p].user.id)))
  /\ mail' = NoMail
  /\ UNCHANGED <<now, users, otps, profiles, jwts, consumed, redeemed>>

\* verifyRefreshToken: the stored row of the presented token, if unexpired
RefreshRows(tok) ==
  IF tok = NoToken THEN {}
  ELSE {row \in refreshTokens : row.token = tok.token /\ row.expiresAt > now}

\* a refresh that rotates: the presented token's rows are deleted
TableAfterRotation(rows, tok) == {row \in rows : row.token # tok.token}

\* POST /refresh makes no store call: table RefreshToken after it
TableAfterRefresh(rows, tok) == rows

\* POST /refresh: verifyRefreshToken, then the response
Refresh ==
  /\ \E tok \in PresentableRefresh :
       LET r == [NoReq EXCEPT !.op = "refresh", !.token = tok]
       IN  IF RefreshRows(tok) = {}
           THEN /\ Respond(r, Reply(401, "Invalid refresh token"))
                /\ UNCHANGED refreshTokens
           ELSE /\ \E row \in RefreshRows(tok) :
                     Respond(r, TokenReply(200, "refreshed", AccessToken(row.userId)))
                /\ refreshTokens' = TableAfterRefresh(refreshTokens, tok)
  /\ mail' = NoMail
  /\ UNCHANGED <<now, users, otps, profiles, jwts, pc, req, consumed, issued, redeemed>>

\* a logout that deletes nothing
DeleteNothing(rows, tok) == rows

\* if (refreshToken) prisma.refreshToken.deleteMany({ where: { token: refreshToken } })
DeleteToken(rows, tok) ==
  IF tok = NoToken THEN rows ELSE {row \in rows : row.token # tok.token}

\* the caller of a route behind authenticate: the user of the access token
\* in the Authorization header, or NoCaller without a valid one
NoCaller == ""
Callers == Emails \cup {NoCaller}

\* authenticate: passes the request of a caller whose user exists
Authenticates(caller) == caller # NoCaller /\ users[caller] # NoUser

\* POST /logout: the request arrives; authenticate passes or refuses the
\* caller, whose e-mail is kept in the request; without a refreshToken in the
\* body the response follows at once
LogoutAuthenticate(p) ==
  /\ Free(p)
  /\ \E caller \in Callers, tok \in PresentableRefresh :
       LET r == [NoReq EXCEPT !.op = "logout", !.email = caller, !.token = tok]
       IN  IF ~Authenticates(caller)
           THEN Finish(p, r, Reply(401, "Unauthorized"))
           ELSE IF tok = NoToken
           THEN Finish(p, r, Reply(200, "Logged out successfully"))
           ELSE Continue(p, "lo_delete", r) /\ Quiet
  /\ mail' = NoMail
  /\ UNCHANGED <<now, users, otps, refreshTokens, profiles, jwts, consumed, issued, redeemed>>

\* a logout that deletes only rows of the caller
LogoutDeleteOwnRowsOnly(p) ==
  /\ pc[p] = "lo_delete"
  /\ refreshTokens' = {row \in refreshTokens :
                         row \in DeleteToken(refreshTokens, req[p].token)
                           \/ row.userId # users[req[p].email].id}
  /\ Finish(p, req[p], Reply(200, "Logged out successfully"))
  /\ mail' = NoMail
  /\ UNCHANGED <<now, users, otps, profiles, jwts, consumed, issued, redeemed>>

\* POST /logout: prisma.refreshToken.deleteMany, then the response
LogoutDelete(p) ==
  /\ pc[p] = "lo_delete"
  /\ refreshTokens' = DeleteToken(refreshTokens, req[p].token)
  /\ Finish(p, req[p], Reply(200, "Logged out successfully"))
  /\ mail' = NoMail
  /\ UNCHANGED <<now, users, otps, profiles, jwts, consumed, issued, redeemed>>

\* an account a@x.com of any role and status, with a session opened earlier
\* whose refresh token expires at time 1, and one free e-mail
InitSession ==
  /\ now = 0
  /\ \E role \in Roles, status \in Statuses :
       /\ users = [e \in Emails |->
                    IF e = "a@x.com"
                    THEN [id |-> e, passwordHash |-> Hash("secret1"), role |-> role,
                          status |-> status, emailVerified |-> FALSE, lastLoginAt |-> NoDate]
                    ELSE NoUser]
       /\ profiles = {[kind |-> role, userId |-> "a@x.com"]}
  /\ otps = <<>>
  /\ refreshTokens = {[type |-> "refresh", userId |-> "a@x.com", token |-> 1, expiresAt |-> 1]}
  /\ jwts = {}
  /\ mail = NoMail
  /\ pc = [p \in Procs |-> "idle"]
  /\ req = [p \in Procs |-> NoReq]
  /\ sent = NoSent
  /\ consumed = <<>>
  /\ issued = 1
  /\ redeemed = NoneRedeemed

\* =========================================================================
\* Specifications.  A handler gives way at each of its store calls: the
\* clock, and with two slots another request, may take steps in between
\* =========================================================================

\* the routes that issue a code and those that verify one
IssueRoutes == {"send-otp", "reset-password"}
VerifyRoutes == {"verify-otp", "verify-reset-otp"}

\* every request accepted by the step asks for a code for address e, and so
\* does every OTP row
OnlyFor(e) ==
  /\ \A i \in DOMAIN otps' : otps'[i].email = e
  /\ \A p \in Procs : req'[p].op \in IssueRoutes => req'[p].email = e

\* the e-mail verification codes: send-otp and verify-otp in the slots S
EmailCodes(S) ==
  \/ \E p \in S : Served /\ SendOtpFindUser(p)
  \/ \E p \in S : Served /\ SendOtpInvalidate(p)
  \/ \E p \in S : Served /\ SendOtpCreate(p)
  \/ \E p \in S : Served /\ VerifyOtpFind(p)
  \/ \E p \in S : Served /\ VerifyOtpUpdate(p)

\* the reset codes: reset-password and verify-reset-otp in the slots S
ResetCodes(S) ==
  \/ \E p \in S : Served /\ ResetPasswordFindUser(p)
  \/ \E p \in S : Served /\ ResetPasswordFindUserAgain(p)
  \/ \E p \in S : Served /\ ResetPasswordInvalidate(p)
  \/ \E p \in S : Served /\ ResetPasswordCreate(p)
  \/ \E p \in S : Served /\ VerifyResetOtpFindUser(p)
  \/ \E p \in S : Served /\ VerifyResetOtpFind(p)
  \/ \E p \in S : Served /\ VerifyResetOtpUpdate(p)

\* register, with and without a verificationToken, in the slots S
Registers(S) ==
  \/ \E p \in S : Served /\ RegisterCheckToken(p)
  \/ \E p \in S : Served /\ RegisterNoToken(p)
  \/ \E p \in S : Served /\ RegisterFindUser(p)
  \/ \E p \in S : Served /\ RegisterHash(p)
  \/ \E p \in S : Served /\ RegisterCreate(p)
  \/ \E p \in S : Served /\ RegisterSaveToken(p)

\* register of clients that send no verificationToken
RegistersUnverified(S) ==
  \/ \E p \in S : Served /\ RegisterNoToken(p)
  \/ \E p \in S : Served /\ RegisterHash(p)
  \/ \E p \in S : Served /\ RegisterCreate(p)
  \/ \E p \in S : Served /\ RegisterSaveToken(p)

\* register of clients that always send a verificationToken (the frontend)
RegistersVerified(S) ==
  \/ \E p \in S : Served /\ RegisterCheckToken(p)
  \/ \E p \in S : Served /\ RegisterFindUser(p)
  \/ \E p \in S : Served /\ RegisterHash(p)
  \/ \E p \in S : Served /\ RegisterCreate(p)
  \/ \E p \in S : Served /\ RegisterSaveToken(p)

\* update-password in the slots S
Updates(S) ==
  \/ \E p \in S : Served /\ UpdatePasswordFindUser(p)
  \/ \E p \in S : Served /\ UpdatePasswordFindOtp(p)
  \/ \E p \in S : Served /\ UpdatePasswordHash(p)
  \/ \E p \in S : Served /\ UpdatePasswordUpdate(p)

\* login, refresh and logout; login and logout in the slots S
Sessions(S) ==
  \/ \E p \in S : Served /\ LoginFindUser(p)
  \/ \E p \in S : Served /\ LoginCompare(p)
  \/ \E p \in S : Served /\ LoginUpdate(p)
  \/ \E p \in S : Served /\ LoginSaveToken(p)
  \/ Served /\ Refresh
  \/ \E p \in S : Served /\ LogoutAuthenticate(p)
  \/ \E p \in S : Served /\ LogoutDelete(p)

\* the OTP engine (send-otp, reset-password, verify-otp, verify-reset-otp)
\* with two requests in flight
Next ==
  \/ Served /\ Tick
  \/ EmailCodes(Procs)
  \/ ResetCodes(Procs)
  \/ Receive

Spec == Init /\ [][Next]_vars

\* concurrent register requests
NextRegisterRace ==
  \/ Served /\ Tick
  \/ RegistersUnverified(Procs)
  \/ Receive

SpecRegisterRace == Init /\ [][NextRegisterRace]_vars

\* register with a verificationToken, two requests in flight, the codes being
\* issued and verified one request at a time
NextVerifiedRace ==
  \/ Served /\ Tick
  \/ EmailCodes(One)
  \/ RegistersVerified(Procs)
  \/ Receive

SpecVerifiedRace == Init /\ [][NextVerifiedRace]_vars

\* update-password with two requests in flight, the codes being issued and
\* verified one request at a time
NextUpdateRace ==
  \/ Served /\ Tick
  \/ ResetCodes(One)
  \/ Updates(Procs)
  \/ Receive

SpecUpdateRace == Init /\ [][NextUpdateRace]_vars

\* the sessions with two requests in flight
NextSessionRace ==
  \/ Served /\ Tick
  \/ Sessions(Procs)
  \/ Receive

SpecSessionRace == InitSession /\ [][NextSessionRace]_vars

\* the OTP engine with one request at a time: no two handlers interleave,
\* the clock runs between the store calls of the one in flight
NextInTurn ==
  \/ Served /\ Tick
  \/ EmailCodes(One)
  \/ ResetCodes(One)
  \/ Receive

SpecInTurn == Init /\ [][NextInTurn]_vars

\* the same with an e-mail service whose dispatches can fail
NextDispatch ==
  \/ NextInTurn
  \/ DispatchRejected

SpecDispatch == Init /\ [][NextDispatch]_vars

\* the registration flow, one request at a time: send-otp, verify-otp,
\* register; the clock runs over the lifetime of a VERIFY_EMAIL code and the
\* window in which register accepts its used row
NextRegistration ==
  \/ Served /\ Tick /\ now' <= VERIFY_OTP_TTL + REGISTER_WINDOW
  \/ EmailCodes(One)
  \/ Registers(One)
  \/ Receive

SpecRegistration == Init /\ [][NextRegistration]_vars

\* the recovery flow, one request at a time: reset-password, verify-reset-otp,
\* update-password
NextRecovery ==
  \/ Served /\ Tick
  \/ ResetCodes(One)
  \/ Updates(One)
  \/ Receive

SpecRecovery == Init /\ [][NextRecovery]_vars

\* the recovery flow, one request at a time, with a clock that runs over the
\* lifetime of a RESET_PASSWORD code and the window in which update-password
\* accepts its used row: a reset token signed after the row expired is still
\* valid when the row has left the window
NextRecoveryWindow ==
  \/ Served /\ Advance(RESET_OTP_TTL + UPDATE_WINDOW)
  \/ ResetCodes(One)
  \/ Updates(One)
  \/ Receive

SpecRecoveryWindow == Init /\ [][NextRecoveryWindow]_vars

\* the sessions, one request at a time: login, refresh, logout
NextSession ==
  \/ Served /\ Tick
  \/ Sessions(One)
  \/ Receive

SpecSession == InitSession /\ [][NextSession]_vars

\* the OTP engine with registrations that skip the OTP, so that an account
\* can hold codes of both purposes at once; the clock runs over the lifetime
\* of a VERIFY_EMAIL code
NextIsolation ==
  \/ Served /\ Tick /\ now' <= VERIFY_OTP_TTL
  \/ EmailCodes(One)
  \/ ResetCodes(One)
  \/ RegistersUnverified(One)
  \/ Receive

SpecIsolation == Init /\ [][NextIsolation]_vars

\* the recovery flow with two registered accounts, of which b@x.com asks for
\* reset codes
NextTwoAccounts ==
  \/ Served /\ Tick
  \/ ResetCodes(One) /\ OnlyFor("b@x.com")
  \/ Updates(One)
  \/ Receive

SpecTwoAccounts == InitTwoAccounts /\ [][NextTwoAccounts]_vars

\* the sessions of two accounts
SpecTwoSessions == InitTwoSessions /\ [][NextSession]_vars

\* the recovery flow of an account with an open session, and refresh
NextLoggedIn ==
  \/ Served /\ Tick
  \/ ResetCodes(One)
  \/ Updates(One)
  \/ Served /\ Refresh
  \/ Receive

SpecLoggedIn == InitLoggedIn /\ [][NextLoggedIn]_vars

\* both flows of one address: b@x.com verifies its e-mail, registers (the
\* frontend sends the verificationToken) and then recovers its password, so
\* that tokens of both flows are in circulation for the same address; the
\* clock runs over the lifetime of a verification token
NextCross ==
  \/ Served /\ Tick /\ now' <= VERIFY_TOKEN_TTL
  \/ EmailCodes(One) /\ OnlyFor("b@x.com")
  \/ ResetCodes(One) /\ OnlyFor("b@x.com")
  \/ RegistersVerified(One)
  \/ Updates(One)
  \/ Receive

SpecCross == Init /\ [][NextCross]_vars

\* =========================================================================
\* Properties
\* =========================================================================

Purposes == {"VERIFY_EMAIL", "RESET_PASSWORD"}

\* the purpose of the codes a route issues or verifies
PurposeOf(op) == IF op \in {"send-otp", "verify-otp"} THEN "VERIFY_EMAIL" ELSE "RESET_PASSWORD"

\* the lifetime of the codes a route issues
TtlOf(op) == IF op = "send-otp" THEN VERIFY_OTP_TTL ELSE RESET_OTP_TTL

\* the error with which a verify route rejects a code
InvalidReply(op) == IF op = "verify-otp" THEN InvalidCode ELSE InvalidResetCode

\* the await of a verify route at which its lookup has found a row
UpdateLabel(op) == IF op = "verify-otp" THEN "vo_update" ELSE "vr_update"

\* the step answers a request to route op
Answered(op) == sent = NoSent /\ sent'.req.op = op

\* the requests to route op that arrive in the step: one answered on arrival,
\* or one that goes on to a later store call
Arrived(op) ==
  (IF Answered(op) /\ pc' = pc THEN {sent'.req} ELSE {})
    \cup {req'[p] : p \in {q \in Procs : pc[q] = "idle" /\ pc'[q] # "idle" /\ req'[q].op = op}}

\* request r is refused by the step, with status
RefusedWith(r, status) == sent'.req = r /\ sent'.reply.status = status

\* request r goes on to the store call at label
GoesOn(r, label) == \E p \in Procs : pc[p] # label /\ pc'[p] = label /\ req'[p] = r

\* the handler in slot p makes the store call at label in this step
At(p, label) == pc[p] = label /\ pc'[p] # label

\* a handler reaches label only from one of the awaits before it, with its
\* locals kept when it was in flight
OnlyFrom(label, before) ==
  \A p \in Procs : (pc'[p] = label /\ pc[p] # label) =>
     /\ pc[p] \in before
     /\ pc[p] # "idle" => \E r \in {req[p]} : /\ req'[p].email = r.email /\ req'[p].otp = r.otp
                                               /\ req'[p].password = r.password
                                               /\ req'[p].role = r.role /\ req'[p].token = r.token
                                               /\ req'[p].user = r.user

\* row i is a row of (e, purpose)
RowOf(rows, i, e, purpose) == rows[i].email = e /\ rows[i].purpose = purpose

\* ---- C1
\* C1: at every instant, under any interleaving of the store steps of
\* concurrent send-otp (likewise reset-password) requests, at most one row of
\* an (email, purpose) is unused and unexpired.  Refuted with two requests in
\* flight: both run updateMany before either runs create.
AtMostOneLiveRow ==
  \A e \in Emails, purpose \in Purposes : Cardinality(LiveRows(otps, e, purpose, now)) <= 1

\* ---- C2
\* C2: when issues run one after another, a completed send-otp / reset-password
\* leaves exactly its newly inserted row unused and unexpired for its
\* (email, purpose): its updateMany leaves no row of the pair live, and at the
\* response every row of the pair that had not expired when the handler read
\* the clock has isUsed = true, except the new row; no other row of the pair
\* is live at the response.
IssueLeavesOnlyNewRowLive ==
  [][/\ \A p \in Procs : \A op \in IssueRoutes :
          (req[p].op = op /\ (At(p, "so_invalidate") \/ At(p, "rp_invalidate"))) =>
             /\ LiveRows(otps', req[p].email, PurposeOf(op), now) = {}
             /\ req'[p].expiresAt = now + TtlOf(op)
     /\ \A op \in IssueRoutes :
          (Answered(op) /\ sent'.req.row # NoRow) =>
             /\ Len(otps') = Len(otps) + 1
             /\ sent'.req.row = Len(otps')
             /\ LiveRows(otps', sent'.req.email, PurposeOf(op), sent'.req.expiresAt - TtlOf(op))
                  = {sent'.req.row}
             /\ LiveRows(otps', sent'.req.email, PurposeOf(op), now') \subseteq {sent'.req.row}
             /\ \A i \in LiveRows(otps, sent'.req.email, PurposeOf(op), now) : otps'[i].isUsed]_vars

\* an issue has just invalidated an earlier row of its pair that was unexpired
\* and had never been verified
IssueInvalidatedLiveRow ==
  /\ sent.req.op \in IssueRoutes
  /\ sent.req.row = 2
  /\ RowOf(otps, 1, sent.req.email, PurposeOf(sent.req.op))
  /\ otps[1].isUsed /\ consumed[1] = 0 /\ otps[1].expiresAt > now
  /\ LiveRows(otps, sent.req.email, PurposeOf(sent.req.op), now) = {2}

\* ---- C3
\* a verify of (e, code, purpose) has succeeded and no code was issued for
\* (e, purpose) since
VerifiedAndNotReissued(e, code, purpose) ==
  \E i \in RowIds :
    /\ RowOf(otps, i, e, purpose) /\ otps[i].otp = code /\ consumed[i] > 0
    /\ \A j \in RowIds : j > i => ~RowOf(otps, j, e, purpose)

\* C3: an issued row is verified at most once: after a verify with (email,
\* code, purpose) has succeeded and no new code has been issued for the pair,
\* a later verify with the same arguments fails with the "invalid or expired"
\* error, mints no token and uses no row.
VerifySucceedsAtMostOnce ==
  [][/\ \A i \in DOMAIN consumed' : consumed'[i] <= 1
     /\ \A op \in VerifyRoutes :
          (Answered(op) /\ VerifiedAndNotReissued(sent'.req.email, sent'.req.otp, PurposeOf(op)))
             => /\ sent'.reply = InvalidReply(op)
                /\ jwts' = jwts
                /\ otps' = otps
                /\ consumed' = consumed]_vars

\* a verify has just been refused for a code that was verified before, with
\* the row still unexpired: only isUsed stands in its way
SecondVerifyRefused ==
  /\ sent.req.op \in VerifyRoutes
  /\ sent.reply = InvalidReply(sent.req.op)
  /\ \E i \in RowIds :
       /\ RowOf(otps, i, sent.req.email, PurposeOf(sent.req.op))
       /\ otps[i].otp = sent.req.otp /\ consumed[i] = 1 /\ otps[i].expiresAt > now
       /\ \A j \in RowIds : j > i => ~RowOf(otps, j, sent.req.email, PurposeOf(sent.req.op))

\* ---- C4
\* C4: when two verify requests with the same (email, code) interleave at
\* their store steps, at most one succeeds on the one row.  Refuted with two
\* requests in flight: both run findFirst before either runs update.
RowVerifiedAtMostOnce == \A i \in RowIds : consumed[i] <= 1

\* ---- C5
\* the requests to verify route op whose lookup (findFirst) finds a row in
\* the step
Found(op) ==
  {req'[p] : p \in {q \in Procs : pc[q] # UpdateLabel(op) /\ pc'[q] = UpdateLabel(op)}}

\* C5: a verify succeeds only if at its lookup a row has exactly the given
\* email, code and purpose, isUsed = false and expiresAt > now (so an
\* expired code is refused even if never used): the lookup goes on to the
\* update only with such a row, a success comes only from that update, and a
\* refused verify changes no OTP row and mints no token.
VerifyOnlyLiveMatch ==
  [][\A op \in VerifyRoutes :
       /\ \A r \in Found(op) :
            /\ r.row \in RowIds
            /\ RowOf(otps, r.row, r.email, PurposeOf(op))
            /\ otps[r.row].otp = r.otp
            /\ ~otps[r.row].isUsed
            /\ otps[r.row].expiresAt > now
            /\ otps' = otps
       /\ Answered(op) =>
            /\ sent'.reply.status = 200 =>
                 \E p \in Procs : At(p, UpdateLabel(op)) /\ req[p] = sent'.req
            /\ sent'.reply.status # 200 =>
                 /\ sent'.reply = InvalidReply(op)
                 /\ otps' = otps
                 /\ jwts' = jwts]_vars

\* a verify has just been refused for a code that was never used and has expired
ExpiredUnusedCodeRefused ==
  /\ sent.req.op \in VerifyRoutes
  /\ sent.reply = InvalidReply(sent.req.op)
  /\ \E i \in RowIds :
       /\ RowOf(otps, i, sent.req.email, PurposeOf(sent.req.op))
       /\ otps[i].otp = sent.req.otp
       /\ ~otps[i].isUsed
       /\ otps[i].expiresAt <= now

\* ---- C6
\* rows i and j are two issues in a row for (e, purpose), with different
\* codes: j is the latest row of the pair and i the one before it, no verify
\* has succeeded on either, and row j has not expired
IssuedTwiceInARow(e, purpose, i, j) ==
  /\ i < j
  /\ RowOf(otps, i, e, purpose) /\ RowOf(otps, j, e, purpose)
  /\ \A k \in RowIds : (k > i /\ k # j) => ~RowOf(otps, k, e, purpose)
  /\ consumed[i] = 0 /\ consumed[j] = 0
  /\ otps[j].expiresAt > now
  /\ otps[i].otp # otps[j].otp

\* C6: after a code has been issued twice in a row for the same (email,
\* purpose), a verify with the first code fails and a verify with the second
\* code, before its expiry, succeeds (on the second row): at the lookup the
\* first code finds no row and is refused, the second code finds the second
\* row, and the update that follows a lookup answers with success.
SecondCodeVerifiesFirstDoesNot ==
  [][\A op \in VerifyRoutes :
       /\ \A i, j \in RowIds :
            /\ \A r \in Found(op) :
                 IssuedTwiceInARow(r.email, PurposeOf(op), i, j) =>
                    r.otp # otps[i].otp /\ r.row = j
            /\ (Answered(op) /\ sent'.reply.status # 200
                  /\ IssuedTwiceInARow(sent'.req.email, PurposeOf(op), i, j)) =>
                 /\ sent'.req.otp # otps[j].otp
                 /\ sent'.reply = InvalidReply(op) /\ jwts' = jwts /\ otps' = otps
       /\ \A p \in Procs :
            At(p, UpdateLabel(op)) =>
               /\ sent'.req.op = op /\ sent'.reply.status = 200
               /\ sent'.req.row = req[p].row /\ otps'[req[p].row].isUsed]_vars

\* a verify with the first of two codes issued in a row has just been refused,
\* the first row being unexpired and the second one live
FirstCodeRefusedAfterReissue ==
  /\ sent.req.op \in VerifyRoutes
  /\ sent.reply = InvalidReply(sent.req.op)
  /\ Len(otps) = 2
  /\ IssuedTwiceInARow(sent.req.email, PurposeOf(sent.req.op), 1, 2)
  /\ sent.req.otp = otps[1].otp
  /\ otps[1].expiresAt > now
  /\ ~otps[2].isUsed

\* ---- C7
\* C7: tokens do not cross flows: update-password refuses a verification
\* token that is validly signed and unexpired, and changes no password;
\* register refuses a validly signed, unexpired reset token given as
\* verificationToken, and creates no user.  Both are refused on arrival,
\* before any store call.
TokensDoNotCrossFlows ==
  [][/\ \A r \in Arrived("update-password") :
          (r.token \in jwts /\ r.token.type = "verification")
             => RefusedWith(r, 400) /\ users' = users
     /\ \A r \in Arrived("register") :
          (r.token \in jwts /\ r.token.type = "password_reset")
             => /\ RefusedWith(r, 400)
                /\ users' = users /\ profiles' = profiles /\ refreshTokens' = refreshTokens]_vars

\* update-password has just refused a genuine verification token, sent with an
\* acceptable password for a registered address that has a used reset code:
\* only the token's type stands in its way
VerificationTokenRefusedAtUpdate ==
  /\ sent.req.op = "update-password"
  /\ sent.req.token \in jwts
  /\ sent.req.token.type = "verification"
  /\ PasswordOk(sent.req.password)
  /\ users[sent.req.token.email] # NoUser
  /\ FindUsedOtp(otps, sent.req.token.email, "RESET_PASSWORD", now - UPDATE_WINDOW) # NoRow
  /\ sent.reply = Reply(400, "Invalid reset token")

\* ---- C8
\* the two checks of register on a verificationToken tok for address e
RegisterChecksPass(e, tok) ==
  /\ tok \in jwts /\ tok.type = "verification" /\ tok.email = e
  /\ \E i \in RowIds : /\ RowOf(otps, i, e, "VERIFY_EMAIL")
                       /\ otps[i].isUsed
                       /\ otps[i].expiresAt > now - REGISTER_WINDOW

\* C8: register called with a verificationToken creates a user only if the
\* token verifies, has type 'verification' and carries the registration
\* e-mail, and a VERIFY_EMAIL row of that e-mail has isUsed = true and
\* expiresAt > now - 10 minutes; otherwise the request fails and no user,
\* profile or refresh token is created.  The checks are made on arrival: the
\* handler goes on to its store calls only if they pass, and a user, profile
\* or refresh token is created only by a handler that has gone on.
RegisterWithTokenGuarded ==
  [][/\ \A r \in Arrived("register") :
          r.token # NoToken =>
             /\ GoesOn(r, "rg_find") => RegisterChecksPass(r.email, r.token)
             /\ ~RegisterChecksPass(r.email, r.token) => RefusedWith(r, 400)
             /\ users' = users /\ profiles' = profiles /\ refreshTokens' = refreshTokens
     /\ OnlyFrom("rg_find", {"idle"})
     /\ \A p \in Procs : (pc'[p] = "rg_hash" /\ req'[p].token # NoToken) => pc[p] # "idle"
     /\ OnlyFrom("rg_hash", {"idle", "rg_find"})
     /\ OnlyFrom("rg_create", {"rg_hash"})
     /\ OnlyFrom("rg_token", {"rg_create"})
     /\ (users' # users \/ profiles' # profiles) => \E p \in Procs : At(p, "rg_create")
     /\ refreshTokens' # refreshTokens => \E p \in Procs : At(p, "rg_token")]_vars

\* register has just refused a forged verification token for a free address
\* that has a used, recent VERIFY_EMAIL row: only jwt.verify stands in its way
ForgedTokenRefusedAtRegister ==
  /\ sent.req.op = "register"
  /\ sent.req.token \in ForgedTokens
  /\ sent.req.token.type = "verification"
  /\ sent.req.token.email = sent.req.email
  /\ PasswordOk(sent.req.password)
  /\ users[sent.req.email] = NoUser
  /\ FindUsedOtp(otps, sent.req.email, "VERIFY_EMAIL", now - REGISTER_WINDOW) # NoRow
  /\ sent.reply.status = 400

\* ---- C9
\* the check of update-password on a reset token tok, made on arrival
ResetTokenPasses(tok) == tok \in jwts /\ tok.type = "password_reset"

\* the check of update-password on the OTP rows of address e, made at findFirst
UsedResetRowInWindow(e) ==
  \E i \in RowIds : /\ RowOf(otps, i, e, "RESET_PASSWORD")
                    /\ otps[i].isUsed
                    /\ otps[i].expiresAt > now - UPDATE_WINDOW

\* C9: update-password changes a passwordHash only when the reset token
\* verifies with type 'password_reset' and a RESET_PASSWORD row of the token's
\* e-mail has isUsed = true and expiresAt > now - 15 minutes, each at the
\* moment the handler makes the check; otherwise the request fails and the
\* stored passwordHash is unchanged.
UpdatePasswordGuarded ==
  [][/\ \A r \in Arrived("update-password") :
          /\ GoesOn(r, "up_find") => ResetTokenPasses(r.token)
          /\ ~ResetTokenPasses(r.token) => RefusedWith(r, 400)
          /\ users' = users
     /\ \A p \in Procs :
          At(p, "up_find") =>
             /\ pc'[p] = "up_hash" => UsedResetRowInWindow(req[p].email)
             /\ ~UsedResetRowInWindow(req[p].email) => RefusedWith(req[p], 400)
             /\ users' = users
     /\ OnlyFrom("up_find", {"idle"})
     /\ OnlyFrom("up_hash", {"up_find"})
     /\ OnlyFrom("up_update", {"up_hash"})
     /\ users' # users =>
          \E p \in Procs :
            /\ At(p, "up_update")
            /\ req[p].email = req[p].token.email
            /\ users' = [users EXCEPT ![req[p].email].passwordHash = Hash(req[p].password)]]_vars

\* update-password has just stored a new passwordHash for a@x.com
PasswordUpdated ==
  /\ sent.req.op = "update-password"
  /\ sent.reply = Reply(200, "Password updated successfully")
  /\ sent.req.token.email = "a@x.com"
  /\ users["a@x.com"].passwordHash = Hash(sent.req.password)
  /\ users["a@x.com"].passwordHash # Hash("secret1")

\* update-password changed the password of a@x.com, and a later request with a
\* genuine, unexpired password_reset token for a@x.com has just been refused
\* because no used RESET_PASSWORD row of a@x.com is left in the window
UpdateRefusedOutsideWindow ==
  /\ sent.req.op = "update-password"
  /\ sent.reply = Reply(400, "Reset code verification required. Please verify OTP first.")
  /\ sent.req.token \in jwts
  /\ sent.req.token.type = "password_reset"
  /\ sent.req.token.email = "a@x.com"
  /\ ~UsedResetRowInWindow("a@x.com")
  /\ \E i \in RowIds : RowOf(otps, i, "a@x.com", "RESET_PASSWORD") /\ otps[i].isUsed
  /\ users["a@x.com"].passwordHash # Hash("secret1")

\* ---- C10
\* C10: reset-password answers with the same status and shape (success,
\* the same message, otpStatus PENDING_VERIFICATION, otpExpiresAt 10 minutes
\* after the handler read the clock) whether or not the e-mail has a user;
\* without a user it creates or changes no OTP row and hands no e-mail to the
\* e-mail service.
ResetPasswordSameResponse ==
  [][/\ \A p \in Procs :
          /\ At(p, "rp_invalidate") => req'[p].expiresAt = now + RESET_OTP_TTL
          /\ (At(p, "rp_find2") \/ (pc[p] = "idle" /\ pc'[p] \in {"rp_find2", "rp_invalidate"})) =>
                otps' = otps /\ mail' = NoMail
          /\ (pc[p] # "rp_invalidate" /\ pc'[p] = "rp_invalidate") =>
                users[req'[p].email] # NoUser
          /\ (pc[p] = "idle" /\ pc'[p] = "rp_find2") => users[req'[p].email] = NoUser
          /\ (At(p, "rp_find2") /\ pc'[p] = "idle") => users[req[p].email] = NoUser
          /\ At(p, "rp_create") => Len(otps') = Len(otps) + 1 /\ mail'.to = req[p].email
     /\ Answered("reset-password") =>
          \E p \in Procs :
            /\ At(p, "rp_find2") \/ At(p, "rp_create")
            /\ sent'.reply = [status |-> 200, msg |-> "If email exists, password reset OTP sent",
                              otpStatus |-> "PENDING_VERIFICATION",
                              otpExpiresAt |-> IF pc[p] = "rp_find2" THEN now + RESET_OTP_TTL
                                               ELSE req[p].expiresAt,
                              token |-> NoToken]]_vars

\* reset-password has just answered a request for an e-mail without a user
UnknownEmailAnswered ==
  /\ sent.req.op = "reset-password"
  /\ users[sent.req.email] = NoUser
  /\ sent.reply.status = 200
  /\ sent.reply.otpExpiresAt = now + RESET_OTP_TTL
  /\ mail = NoMail

\* ---- C11
\* the one signal of login for invalid credentials
InvalidCredentials == [NoResp EXCEPT !.status = 401, !.msg = "Invalid credentials"]

\* C11: login answers an unknown e-mail and a known e-mail with a wrong
\* password with the same signal (401, 'Invalid credentials'), whatever the
\* account's role and status and whatever role was asked for; in both cases
\* no refresh token is stored and no lastLoginAt is written: the unknown
\* e-mail is refused after findUnique, the wrong password after
\* bcrypt.compare on the row read, and only a login that has gone on past
\* both writes either.
LoginSameInvalidCredentials ==
  [][/\ \A r \in Arrived("login") :
          /\ users[r.email] = NoUser => sent'.req = r /\ sent'.reply = InvalidCredentials
          /\ GoesOn(r, "li_compare") => r.user = users[r.email] /\ r.user # NoUser
          /\ refreshTokens' = refreshTokens
          /\ users' = users
     /\ \A p \in Procs :
          At(p, "li_compare") =>
             /\ req[p].user.passwordHash # Hash(req[p].password)
                  => sent'.req = req[p] /\ sent'.reply = InvalidCredentials
             /\ refreshTokens' = refreshTokens
             /\ users' = users
     /\ OnlyFrom("li_compare", {"idle"})
     /\ OnlyFrom("li_update", {"li_compare"})
     /\ OnlyFrom("li_token", {"li_update"})
     /\ users' # users => \E p \in Procs : At(p, "li_update")
     /\ refreshTokens' \ refreshTokens # {} => \E p \in Procs : At(p, "li_token")]_vars

\* login has just refused a wrong password for the blocked account a@x.com,
\* asked for with a role that is not the account's
WrongPasswordRefused ==
  /\ sent.req.op = "login"
  /\ users[sent.req.email] # NoUser
  /\ users[sent.req.email].passwordHash # Hash(sent.req.password)
  /\ users[sent.req.email].status = "BLOCKED"
  /\ sent.req.role # NoRole /\ sent.req.role # users[sent.req.email].role
  /\ sent.reply.status = 401

\* ---- C12
\* C12: login with the correct e-mail and password of a BLOCKED account
\* fails with 'Account is blocked' whatever expected role was supplied, stores
\* no refresh token and writes no lastLoginAt.  Refuted: with an expected
\* role that is not the account's, the login fails with 'Invalid role for
\* this account', the role being checked before the status.
BlockedLoginFailsAsBlocked ==
  [][\A p \in Procs :
       (/\ At(p, "li_compare")
        /\ req[p].user.passwordHash = Hash(req[p].password)
        /\ req[p].user.status = "BLOCKED")
         => /\ sent'.req = req[p]
            /\ sent'.reply = [NoResp EXCEPT !.status = 403, !.msg = "Account is blocked"]
            /\ refreshTokens' = refreshTokens
            /\ users' = users]_vars

\* ---- C13
\* C13: verify-reset-otp refuses with the one error 'Invalid or expired reset
\* code' when the account does not exist as when the code is wrong, used or
\* expired, changing nothing; on success it marks exactly the matched row
\* used and mints a reset token carrying that user's e-mail and id.
VerifyResetOtpOneErrorOneRow ==
  [][/\ \A r \in Arrived("verify-reset-otp") :
          users[r.email] = NoUser =>
             /\ sent'.req = r
             /\ sent'.reply = [NoResp EXCEPT !.status = 400, !.msg = "Invalid or expired reset code"]
     /\ \A r \in Found("verify-reset-otp") :
          /\ r.row \in RowIds
          /\ ~otps[r.row].isUsed
          /\ otps[r.row].otp = r.otp
          /\ otps[r.row].email = r.email
     /\ Answered("verify-reset-otp") =>
          /\ sent'.reply.status # 200 =>
               /\ sent'.reply = [NoResp EXCEPT !.status = 400, !.msg = "Invalid or expired reset code"]
               /\ otps' = otps /\ jwts' = jwts
          /\ sent'.reply.status = 200 =>
               /\ \E p \in Procs : At(p, "vr_update") /\ req[p] = sent'.req
               /\ otps' = [otps EXCEPT ![sent'.req.row].isUsed = TRUE]
               /\ sent'.reply.token.type = "password_reset"
               /\ sent'.reply.token.email = sent'.req.email
               /\ sent'.reply.token.userId = users[sent'.req.email].id
               /\ jwts' = jwts \cup {sent'.reply.token}]_vars

\* verify-reset-otp has just succeeded on one row while another row, of
\* another address, stays unused
ResetCodeVerifiedOtherRowUntouched ==
  /\ sent.req.op = "verify-reset-otp"
  /\ sent.reply.status = 200
  /\ \E k \in RowIds : k # sent.req.row /\ ~otps[k].isUsed

\* ---- C14
\* address x is stored as verified after the step and was not before
BecomesVerified(x) ==
  /\ users'[x] # NoUser
  /\ users'[x].emailVerified
  /\ users[x] = NoUser \/ ~users[x].emailVerified

\* C14: register without a verificationToken, for an unregistered e-mail,
\* succeeds and stores emailVerified = false; register with a
\* verificationToken that passes all checks stores emailVerified = true; no
\* other step makes an e-mail verified.  A register that finds no user goes
\* on, past bcrypt.hash, to create one, verified exactly when it came with a
\* token (whose checks it has passed by then), and answers 201 once its
\* refresh token is stored.
EmailVerifiedOnlyByToken ==
  [][/\ \A r \in Arrived("register") :
          /\ (r.token = NoToken /\ users[r.email] = NoUser /\ Len(r.password) >= MIN_PASSWORD)
               => GoesOn(r, "rg_hash")
          /\ (r.token # NoToken /\ Len(r.password) >= MIN_PASSWORD
                /\ RegisterChecksPass(r.email, r.token))
               => GoesOn(r, "rg_find")
          /\ GoesOn(r, "rg_find") => r.token # NoToken /\ RegisterChecksPass(r.email, r.token)
          /\ GoesOn(r, "rg_hash") => r.token = NoToken
     /\ \A p \in Procs :
          /\ (At(p, "rg_find") /\ users[req[p].email] = NoUser) =>
                pc'[p] = "rg_hash" /\ req'[p] = req[p]
          /\ At(p, "rg_hash") => pc'[p] = "rg_create" /\ req'[p] = req[p]
          /\ (At(p, "rg_create") /\ users[req[p].email] = NoUser) =>
                /\ pc'[p] = "rg_token"
                /\ users'[req[p].email] # NoUser
                /\ users'[req[p].email].emailVerified <=> req[p].token # NoToken
          /\ At(p, "rg_token") => sent'.req = req[p] /\ sent'.reply.status = 201
     /\ OnlyFrom("rg_find", {"idle"})
     /\ OnlyFrom("rg_hash", {"idle", "rg_find"})
     /\ OnlyFrom("rg_create", {"rg_hash"})
     /\ \A x \in Emails :
          BecomesVerified(x) =>
            \E p \in Procs : At(p, "rg_create") /\ req[p].email = x /\ req[p].token # NoToken]_vars

\* register has just created b@x.com without a verificationToken, unverified,
\* while a genuine verification token for b@x.com was in circulation
RegisteredUnverified ==
  /\ sent.req.op = "register"
  /\ sent.reply.status = 201
  /\ sent.req.token = NoToken
  /\ ~users[sent.req.email].emailVerified
  /\ \E tok \in jwts : tok.type = "verification" /\ tok.email = sent.req.email

\* ---- C15
\* C15: send-otp for an e-mail that belongs to a user fails with 'Email
\* already registered' and has no effect: no OTP row is invalidated or
\* created and no e-mail is handed to the e-mail service.
SendOtpRefusedForRegistered ==
  [][\A r \in Arrived("send-otp") :
       users[r.email] # NoUser =>
          /\ sent'.req = r
          /\ sent'.reply = [NoResp EXCEPT !.status = 400, !.msg = "Email already registered"]
          /\ otps' = otps
          /\ mail' = NoMail]_vars

\* send-otp has just been refused for a registered address that has a live
\* VERIFY_EMAIL row, issued before it registered
SendOtpRefusedWithLiveRow ==
  /\ sent.req.op = "send-otp"
  /\ sent.reply.status = 400
  /\ users[sent.req.email] # NoUser
  /\ LiveRows(otps, sent.req.email, "VERIFY_EMAIL", now) # {}

\* ---- C16
\* C16: in send-otp and reset-password the row is stored before the dispatch
\* of the e-mail is started and the success response does not wait for it; a
\* dispatch that fails, by a throw or by a rejection afterwards, leaves the
\* response a success and the row as stored, so the code still verifies
\* until it expires.
DispatchFailureKeepsCode ==
  mail # NoMail =>
    /\ sent.req.op \in IssueRoutes
    /\ sent.reply.status = 200
    /\ sent.reply.otpStatus = "PENDING_VERIFICATION"
    /\ sent.reply.otpExpiresAt = sent.req.expiresAt
    /\ sent.req.row \in RowIds
    /\ otps[sent.req.row] = [email |-> mail.to, otp |-> mail.otp, purpose |-> mail.kind,
                             isUsed |-> FALSE, expiresAt |-> sent.req.expiresAt]
    /\ sent.req.expiresAt > now =>
         FindValidOtp(otps, mail.to, mail.otp, mail.kind, now) = sent.req.row

\* the dispatch started by an issue has been rejected after the response
DispatchWasRejected ==
  /\ mail.outcome = "rejected"
  /\ sent.reply.status = 200
  /\ FindValidOtp(otps, mail.to, mail.otp, mail.kind, now) = sent.req.row

\* ---- C17
\* the stored rows a presented refresh token matches: same value, not expired
StoredUnexpired(tok) ==
  {row \in refreshTokens : tok # NoToken /\ row.token = tok.token /\ now < row.expiresAt}

\* C17: refresh does not rotate. A refresh leaves the stored refresh-token rows
\* as they were; it succeeds exactly when a stored, unexpired row holds the
\* presented token, and then returns only a new access token of the row's user,
\* so the same token is accepted again until it expires or logout deletes it;
\* with no token, an unknown token or an expired one it is refused.
RefreshDoesNotRotate ==
  [][Answered("refresh") =>
       /\ refreshTokens' = refreshTokens
       /\ users' = users
       /\ IF StoredUnexpired(sent'.req.token) # {}
          THEN \E row \in StoredUnexpired(sent'.req.token) :
                 sent'.reply = TokenReply(200, "refreshed", AccessToken(row.userId))
          ELSE sent'.reply = Reply(401, "Invalid refresh token")]_vars

\* a refresh has succeeded and the row of its token is still stored, unexpired
RefreshedAndStillStored ==
  /\ sent.req.op = "refresh"
  /\ sent.reply.status = 200
  /\ sent.reply.token.type = "access"
  /\ \E row \in refreshTokens : row.token = sent.req.token.token /\ now < row.expiresAt

\* ---- C18
\* C18: logout is idempotent. An authenticated logout removes every row holding
\* the presented token and nothing else, and answers with the same success
\* response whether or not a row held it; with a token no row holds (a second
\* logout) or with no token it changes nothing.
LogoutIdempotent ==
  [][/\ \A r \in Arrived("logout") : refreshTokens' = refreshTokens /\ users' = users
     /\ Answered("logout") /\ sent'.reply.status # 401 =>
          LET tok == sent'.req.token
              held == {row \in refreshTokens : tok # NoToken /\ row.token = tok.token}
          IN  /\ sent'.reply = Reply(200, "Logged out successfully")
              /\ refreshTokens' = refreshTokens \ held
              /\ held = {} => refreshTokens' = refreshTokens
              /\ \A row \in refreshTokens' : tok = NoToken \/ row.token # tok.token
              /\ users' = users /\ otps' = otps]_vars

\* a logout with a token that no stored row holds, or with no token, has been
\* answered with success while other sessions stay stored
LogoutOfAbsentToken ==
  /\ sent.req.op = "logout"
  /\ sent.reply = Reply(200, "Logged out successfully")
  /\ sent.req.token \in {NoToken, RefreshCredential(0)}
  /\ refreshTokens # {}

\* ---- C19
\* C19: an update-password refused by the validation because the password is
\* too short changes nothing (password hashes, OTP rows, tokens and sessions
\* stay as they were), and an update-password with a password of valid length
\* succeeds whenever the reset token is genuine and unexpired and the used
\* RESET_PASSWORD row is still within the window, so the retry succeeds: it
\* passes the checks on arrival, passes the lookup of the used row, and the
\* update that follows stores the new hash and answers with success.
ShortPasswordChangesNothing ==
  [][/\ \A r \in Arrived("update-password") :
          /\ Len(r.password) < MIN_PASSWORD =>
               /\ sent'.req = r
               /\ sent'.reply = Reply(400, "validation")
               /\ UNCHANGED <<users, otps, jwts, refreshTokens, consumed>>
          /\ (/\ Len(r.password) >= MIN_PASSWORD
              /\ ResetTokenPasses(r.token)
              /\ users[r.token.email] # NoUser)
               => GoesOn([r EXCEPT !.email = r.token.email], "up_find")
     /\ \A p \in Procs :
          /\ (At(p, "up_find") /\ UsedResetRowInWindow(req[p].email)) =>
                pc'[p] = "up_hash" /\ req'[p] = req[p]
          /\ At(p, "up_hash") => pc'[p] = "up_update" /\ req'[p] = req[p]
          /\ At(p, "up_update") =>
                /\ sent'.req = req[p]
                /\ sent'.reply = Reply(200, "Password updated successfully")
                /\ users' = [users EXCEPT ![req[p].email].passwordHash = Hash(req[p].password)]]_vars

\* a too short password has been refused although the token and the window
\* would have let the update through; the password hash is the one of Init
ShortPasswordRejected ==
  /\ sent.req.op = "update-password"
  /\ Len(sent.req.password) < MIN_PASSWORD
  /\ sent.reply = Reply(400, "validation")
  /\ ResetTokenPasses(sent.req.token)
  /\ UsedResetRowInWindow(sent.req.token.email)
  /\ users[sent.req.token.email].passwordHash = Hash("secret1")

\* ---- C20
\* six-digit strings at the ends of the claimed and of the generated range:
\* "000000", "099999", "100000", "999999"
SampleCodes == {0, OTP_BASE - 1, OTP_BASE, OTP_BASE + OTP_SPAN - 1}

\* C20: the code generated by an issue can take every six-digit value from
\* 000000 to 999999, those with leading zeros included: for every such value
\* some value of Math.random() makes an issue at this moment store it.
EveryCodeValuePossible ==
  \A v \in SampleCodes : \E u \in 0 .. OTP_SPAN - 1 :
    NewOtpRow("b@x.com", GenerateOtp(u), "VERIFY_EMAIL", now + VERIFY_OTP_TTL).otp = v

WindowOf(purpose) == IF purpose = "VERIFY_EMAIL" THEN REGISTER_WINDOW ELSE UPDATE_WINDOW

\* C22: the used-row check of register (of update-password) passes only if a
\* code of that e-mail and purpose was verified by a successful verify-otp
\* (verify-reset-otp); a row that is used only because a later issue
\* invalidated it does not satisfy the check.
UsedRowCheckMeansVerified ==
  \A e \in Emails, purpose \in Purposes :
    FindUsedOtp(otps, e, purpose, now - WindowOf(purpose)) # NoRow =>
      \E i \in RowIds : RowOf(otps, i, e, purpose) /\ consumed[i] >= 1

\* ---- C23
\* row i keeps its email, code, purpose and expiresAt in the step
SameCode(i) ==
  /\ otps'[i].email = otps[i].email /\ otps'[i].otp = otps[i].otp
  /\ otps'[i].purpose = otps[i].purpose /\ otps'[i].expiresAt = otps[i].expiresAt

\* the step is the update of a verify that found row i
VerifiedBy(i) ==
  /\ \E op \in VerifyRoutes : Answered(op) /\ RowOf(otps, i, sent'.req.email, PurposeOf(op))
  /\ sent'.reply.status = 200
  /\ sent'.req.row = i

\* the step is the updateMany of an issue for the pair of row i, which was
\* unused and unexpired
InvalidatedBy(i) ==
  /\ \E p \in Procs :
       /\ At(p, "so_invalidate") \/ At(p, "rp_invalidate")
       /\ RowOf(otps, i, req[p].email, PurposeOf(req[p].op))
  /\ otps[i].expiresAt > now

\* C23: OTP rows are append-only and isUsed is monotone. No step deletes a
\* row or changes its email, code, purpose or expiresAt, or sets isUsed back
\* to false; isUsed goes from false to true only by a successful verify of
\* that row or by the invalidation of an issue for its pair.
OtpRowsAppendOnly ==
  [][/\ Len(otps') >= Len(otps)
     /\ \A i \in RowIds :
          /\ SameCode(i)
          /\ otps[i].isUsed => otps'[i].isUsed
          /\ ~otps[i].isUsed /\ otps'[i].isUsed => VerifiedBy(i) \/ InvalidatedBy(i)]_vars

\* the first row was set used by an issue's invalidation and the second by a
\* verify, and both are still stored with their codes after they expired
BothMutationsSeen ==
  /\ Len(otps) = 2
  /\ otps[1].isUsed /\ consumed[1] = 0
  /\ otps[2].isUsed /\ consumed[2] = 1
  /\ otps[2].expiresAt <= now

\* ---- C24
\* C24: the recency check is implied by the validity of the token. Whenever
\* register receives an unexpired verification token minted by verify-otp for
\* the e-mail of the request, the used-row check passes, so the request is not
\* refused with 'Email verification required'.
ValidTokenImpliesRecentRow ==
  [][\A r \in Arrived("register") :
       (r.token \in jwts /\ r.token.type = "verification" /\ r.token.email = r.email) =>
          ~(sent'.req = r
              /\ sent'.reply.msg = "Email verification required. Please verify OTP first.")]_vars

\* ---- C25
\* tok carries the signature of the server
Signed(tok) == tok.key = "JWT_SECRET"

\* C25: tokens cannot be forged (jwt.verify refuses the forged ones), and so
\* every user stored with emailVerified = true was created by a register that
\* carried a token signed by a successful verify-otp for exactly that e-mail
\* less than 10 minutes before the register checked it: verification tokens
\* are signed only by a successful verify-otp, for the e-mail of that
\* request; register goes on past its checks only with such a token,
\* unexpired; and an e-mail becomes verified only in the create of a register
\* that has gone on with one.
VerifiedUserHadRecentVerify ==
  [][/\ \A tok \in jwts' \ jwts :
          tok.type = "verification" =>
            /\ Answered("verify-otp") /\ sent'.reply.status = 200
            /\ tok.email = sent'.req.email /\ tok.iat = now
            /\ sent'.req.row \in RowIds
            /\ RowOf(otps, sent'.req.row, tok.email, "VERIFY_EMAIL")
            /\ consumed'[sent'.req.row] >= 1
     /\ \A r \in Arrived("register") :
          GoesOn(r, "rg_find") =>
            /\ r.token \in jwts
            /\ r.token.type = "verification" /\ r.token.email = r.email
            /\ now - r.token.iat < VERIFY_TOKEN_TTL
            /\ \E i \in RowIds : RowOf(otps, i, r.email, "VERIFY_EMAIL") /\ consumed[i] >= 1
     /\ OnlyFrom("rg_find", {"idle"})
     /\ OnlyFrom("rg_hash", {"idle", "rg_find"})
     /\ OnlyFrom("rg_create", {"rg_hash"})
     /\ \A p \in Procs : (pc[p] = "idle" /\ pc'[p] = "rg_hash") => req'[p].token = NoToken
     /\ \A x \in Emails :
          BecomesVerified(x) =>
            \E p \in Procs :
              /\ At(p, "rg_create") /\ req[p].email = x /\ users[x] = NoUser
              /\ Signed(req[p].token)
              /\ req[p].token.type = "verification" /\ req[p].token.email = x]_vars

\* b@x.com has just been registered as verified with a token signed 5 minutes
\* earlier
RegisteredVerifiedLater ==
  /\ sent.req.op = "register" /\ sent.reply.status = 201
  /\ sent.req.email = "b@x.com"
  /\ users["b@x.com"] # NoUser /\ users["b@x.com"].emailVerified
  /\ sent.req.token.iat = now - 1

\* ---- C26
\* C26: tokens cannot be forged (jwt.verify refuses the forged ones), and so
\* every change of a registered user's passwordHash happens in an
\* update-password that carried a token signed by a successful
\* verify-reset-otp for that user's e-mail less than 15 minutes before the
\* update-password checked it, and changes no other user: reset tokens are
\* signed only by a successful verify-reset-otp, for the e-mail and the user
\* of that request; update-password goes on past its checks only with such a
\* token, unexpired; and a passwordHash changes only in the update of an
\* update-password that has gone on with one.
PasswordChangeHadRecentVerify ==
  [][/\ \A tok \in jwts' \ jwts :
          tok.type = "password_reset" =>
            /\ Answered("verify-reset-otp") /\ sent'.reply.status = 200
            /\ tok.email = sent'.req.email /\ tok.iat = now
            /\ tok.userId = users[tok.email].id
            /\ sent'.req.row \in RowIds
            /\ RowOf(otps, sent'.req.row, tok.email, "RESET_PASSWORD")
            /\ consumed'[sent'.req.row] >= 1
     /\ \A r \in Arrived("update-password") :
          GoesOn(r, "up_find") =>
            /\ r.token \in jwts
            /\ r.token.type = "password_reset" /\ r.token.email = r.email
            /\ now - r.token.iat < RESET_TOKEN_TTL
            /\ \E i \in RowIds : RowOf(otps, i, r.email, "RESET_PASSWORD") /\ consumed[i] >= 1
     /\ OnlyFrom("up_find", {"idle"})
     /\ OnlyFrom("up_hash", {"up_find"})
     /\ OnlyFrom("up_update", {"up_hash"})
     /\ \A x \in Emails :
          users[x] # NoUser /\ users'[x] # users[x] =>
            \E p \in Procs :
              /\ At(p, "up_update") /\ req[p].email = x
              /\ Signed(req[p].token)
              /\ req[p].token.type = "password_reset" /\ req[p].token.email = x
              /\ users'[x] = [users[x] EXCEPT !.passwordHash = Hash(req[p].password)]
              /\ \A y \in Emails \ {x} : users'[y] = users[y]]_vars

\* the password of b@x.com has just been changed with a token signed 10
\* minutes earlier, and the other account keeps its password
OnePasswordChanged ==
  /\ sent.req.op = "update-password" /\ sent.reply.status = 200
  /\ sent.req.token.email = "b@x.com"
  /\ sent.req.token.iat = now - 2
  /\ users["b@x.com"].passwordHash = Hash(sent.req.password)
  /\ users["b@x.com"].passwordHash # Hash("secret1")
  /\ users["a@x.com"].passwordHash = Hash("secret1")

\* ---- C27
\* a row of (e, purpose) holds code, unused and unexpired
LiveCode(e, code, purpose) ==
  \E i \in RowIds : RowOf(otps, i, e, purpose) /\ otps[i].otp = code /\ Live(otps[i], now)

\* C27: OTP state is isolated per (email, purpose). A step changes isUsed
\* only of rows of the e-mail and the purpose of the issue or verify it
\* belongs to; a verify whose lookup finds a row finds a live one of its own
\* purpose, and is refused whenever no live row of its own purpose holds the
\* code, even when a live row of the other purpose holds it for the same
\* e-mail.
OtpStateIsolated ==
  [][/\ \A i \in RowIds :
          otps'[i].isUsed # otps[i].isUsed =>
            \/ \E op \in VerifyRoutes :
                 Answered(op) /\ RowOf(otps, i, sent'.req.email, PurposeOf(op))
            \/ \E p \in Procs :
                 /\ At(p, "so_invalidate") \/ At(p, "rp_invalidate")
                 /\ RowOf(otps, i, req[p].email, PurposeOf(req[p].op))
     /\ \A op \in VerifyRoutes :
          /\ \A r \in Found(op) :
               /\ r.row \in RowIds
               /\ RowOf(otps, r.row, r.email, PurposeOf(op))
               /\ otps[r.row].otp = r.otp
               /\ LiveCode(r.email, r.otp, PurposeOf(op))
          /\ Answered(op) =>
               IF sent'.reply.status = 200
               THEN /\ \E p \in Procs : At(p, UpdateLabel(op)) /\ req[p] = sent'.req
                    /\ RowOf(otps, sent'.req.row, sent'.req.email, PurposeOf(op))
               ELSE sent'.reply = InvalidReply(op) /\ otps' = otps]_vars

\* verify-reset-otp has just refused, for a registered account, a code that a
\* live VERIFY_EMAIL row of the same e-mail holds, and that row is still unused
VerifyEmailCodeRefusedAtReset ==
  /\ sent.req.op = "verify-reset-otp"
  /\ sent.reply = InvalidResetCode
  /\ users[sent.req.email] # NoUser
  /\ LiveCode(sent.req.email, sent.req.otp, "VERIFY_EMAIL")

\* ---- C28
\* the profile rows and the refresh-token rows of the user with e-mail e
ProfilesOf(rows, e) == {pr \in rows : pr.userId = e}
SessionsOf(rows, e) == {rt \in rows : rt.userId = e}

\* C28: under any interleaving of the store steps of two register requests
\* for the same e-mail, one user at most is created for it, one request at
\* most returns tokens (each 201 stores one refresh-token row, and the e-mail
\* never has two), and a request that does not return tokens leaves no user,
\* no profile row and no refresh-token row behind: a request creates a user
\* and a profile only in a transaction that commits, after which it stores
\* its refresh token and answers 201.
RegisterRaceOneWinner ==
  [][/\ \A e \in Emails :
          /\ Cardinality(ProfilesOf(profiles', e)) <= 1
          /\ Cardinality(SessionsOf(refreshTokens', e)) <= 1
          /\ users[e] # NoUser => users'[e] = users[e]
     /\ \A p \in Procs :
          /\ At(p, "rg_create") =>
                IF pc'[p] = "rg_token"
                THEN users[req[p].email] = NoUser /\ users'[req[p].email] # NoUser
                ELSE /\ sent'.req = req[p] /\ sent'.reply.status = 500
                     /\ users' = users /\ profiles' = profiles
          /\ At(p, "rg_token") => sent'.req = req[p] /\ sent'.reply.status = 201
     /\ (users' # users \/ profiles' # profiles) =>
          \E p \in Procs : At(p, "rg_create") /\ pc'[p] = "rg_token"
     /\ OnlyFrom("rg_token", {"rg_create"})
     /\ Answered("register") =>
          IF sent'.reply.status = 201
          THEN /\ SessionsOf(refreshTokens', sent'.req.email) = {sent'.reply.token}
               /\ SessionsOf(refreshTokens, sent'.req.email) = {}
               /\ users'[sent'.req.email] # NoUser
               /\ profiles' = profiles /\ users' = users
          ELSE /\ users' = users /\ profiles' = profiles /\ refreshTokens' = refreshTokens
               /\ sent'.reply.token = NoToken]_vars

\* a register that found no user at its check has lost the race: it was
\* answered 500 after the other request had created the user, and the e-mail
\* has one user and one profile row
RegisterRaceLost ==
  /\ sent.req.op = "register"
  /\ sent.reply = Reply(500, "Registration failed")
  /\ users[sent.req.email] # NoUser
  /\ Cardinality(ProfilesOf(profiles, sent.req.email)) = 1
  /\ Cardinality(SessionsOf(refreshTokens, sent.req.email)) <= 1

\* ---- C29
\* C29: a successful update-password leaves the stored refresh-token rows as
\* they were (no step of update-password touches them), and a refresh token
\* stored for the user before the password change is accepted by refresh
\* afterwards as long as it is unexpired.
UpdatePasswordKeepsSessions ==
  [][/\ (Answered("update-password") \/ Arrived("update-password") # {}
           \/ \E p \in Procs : At(p, "up_find") \/ At(p, "up_update"))
          => refreshTokens' = refreshTokens
     /\ Answered("refresh") =>
          \A row \in StoredUnexpired(sent'.req.token) :
            users[row.userId].passwordHash # Hash("secret1") =>
              sent'.reply = TokenReply(200, "refreshed", AccessToken(row.userId))]_vars

\* the refresh token stored at the login has just been accepted by refresh
\* after the password of its user was changed by update-password
RefreshedAfterPasswordChange ==
  /\ sent.req.op = "refresh"
  /\ sent.reply.status = 200
  /\ sent.req.token = RefreshCredential(1)
  /\ users["a@x.com"].passwordHash = Hash("secret2")
  /\ redeemed.once # {}

\* ---- C30
\* C30: logout does not check whose token it deletes. An authenticated caller
\* who presents a refresh token has every row holding that token deleted,
\* also when the row is stored for another user, and the rows with any other
\* token value stay.
LogoutIgnoresOwnership ==
  [][/\ \A r \in Arrived("logout") :
          (Authenticates(r.email) /\ r.token # NoToken) => GoesOn(r, "lo_delete")
     /\ \A p \in Procs :
          At(p, "lo_delete") =>
            /\ sent'.req = req[p]
            /\ sent'.reply.status = 200
            /\ \A row \in refreshTokens :
                 IF row.token = req[p].token.token
                 THEN row \notin refreshTokens'
                 ELSE row \in refreshTokens'
            /\ refreshTokens' \subseteq refreshTokens]_vars

\* a@x.com has just logged out with the refresh token stored for b@x.com: the
\* row of b@x.com is gone and the one of a@x.com is still stored
OtherUsersSessionDeleted ==
  /\ sent.req.op = "logout" /\ sent.reply.status = 200
  /\ sent.req.email = "a@x.com"
  /\ sent.req.token = RefreshCredential(2)
  /\ \A row \in refreshTokens : row.token # 2
  /\ \E row \in refreshTokens : row.userId = "a@x.com" /\ row.token = 1

====
